---- MODULE Spec2Model ----
(***************************************************************************)
(* Niche structure discovery engine of stniche (src/stniche/stniche.py):   *)
(* seed step, motif expansion, geometric signature, greedy grouping,       *)
(* group scoring and the iterative expansion loop.                         *)
(*                                                                         *)
(* Conventions of the model                                                *)
(*   - a coordinate is <<row, col>>, a node is <<coordinate, label>>, a    *)
(*     motif is the sequence of its nodes (the Python list);               *)
(*   - a Python dict is the sequence of its entries in insertion order;    *)
(*   - a structure name "structure_k" is the integer k;                    *)
(*   - rationals are pairs <<numerator, denominator>> with denominator > 0;*)
(*   - p-values are integers in thousandths.                               *)
(***************************************************************************)
EXTENDS Integers, Sequences, FiniteSets, TLC

(***************************************************************************)
(* Bounds of the model.                                                    *)
(***************************************************************************)
\* largest number of spots of one sample
MaxSpots == 4

\* number of samples of the spot table
NSamples == 2

Labels == {"A", "B"}

\* the order of the label strings
LabelLess(a, b) == a = "A" /\ b = "B"

Samples == 1..NSamples

\* sorted(...) of a set of labels
RECURSIVE SortLabels(_)
SortLabels(S) ==
    IF S = {} THEN <<>>
    ELSE LET m == CHOOSE x \in S : \A y \in S : x = y \/ LabelLess(x, y)
         IN <<m>> \o SortLabels(S \ {m})

(***************************************************************************)
(* Small helpers.                                                          *)
(***************************************************************************)
Abs(x) == IF x < 0 THEN -x ELSE x

Range(s) == {s[i] : i \in DOMAIN s}

RECURSIVE SumSeq(_)
SumSeq(s) == IF s = <<>> THEN 0 ELSE Head(s) + SumSeq(Tail(s))

\* lexicographic order of Python tuples (row, col)
CoordLess(p, q) == p[1] < q[1] \/ (p[1] = q[1] /\ p[2] < q[2])

\* the elements of a finite set of coordinates in ascending order
RECURSIVE SortCoords(_)
SortCoords(S) ==
    IF S = {} THEN <<>>
    ELSE LET m == CHOOSE x \in S : \A y \in S : x = y \/ CoordLess(x, y)
         IN <<m>> \o SortCoords(S \ {m})

Reverse(s) == [i \in 1..Len(s) |-> s[Len(s) + 1 - i]]

\* comparison of rationals <<n, d>> with d > 0
RatLess(a, b) == a[1] * b[2] < b[1] * a[2]

RatLeq(a, b) == a[1] * b[2] <= b[1] * a[2]

(***************************************************************************)
(* The 8-vector neighbour offset set.                                      *)
(***************************************************************************)
neighbors_offset ==
    << <<-1, 0>>, <<1, 0>>, <<0, -2>>, <<0, 2>>,
       <<-1, -1>>, <<1, -1>>, <<-1, 1>>, <<1, 1>> >>

\* variant: the horizontal neighbours are taken one column away
NeighborsOfBug(p) ==
    [o \in 1..Len(neighbors_offset) |->
        <<p[1] + neighbors_offset[o][1],
          IF neighbors_offset[o][1] = 0 THEN p[2] + neighbors_offset[o][2] \div 2
          ELSE p[2] + neighbors_offset[o][2]>>]

\* the neighbours of a coordinate, in the order of the offsets
NeighborsOf(p) ==
    [o \in 1..Len(neighbors_offset) |->
        <<p[1] + neighbors_offset[o][1], p[2] + neighbors_offset[o][2]>>]

(***************************************************************************)
(* geometric_signature and compare_structures.                             *)
(*                                                                         *)
(* A distance is kept as the integer (n * d)^2, where n is the number of   *)
(* nodes and d the Euclidean distance: the code subtracts the centroid     *)
(* (sum / n) from every coordinate before taking the pairwise norm, so     *)
(* n * vector = n * coordinate - sum is an integer vector.  np.round(., 6) *)
(* of the square root maps distinct values of d^2 on these grids to        *)
(* distinct keys, so the squared value is the key of the distance bucket.  *)
(***************************************************************************)
\* n * (coordinates - center), lines 297-299
CenteredVectors(structure) ==
    LET n  == Len(structure)
        sx == SumSeq([i \in 1..n |-> structure[i][1][1]])
        sy == SumSeq([i \in 1..n |-> structure[i][1][2]])
    IN [i \in 1..n |-> <<n * structure[i][1][1] - sx, n * structure[i][1][2] - sy>>]

\* (n * distance)^2 between the centred vectors of nodes i and j, line 300
DistanceSq(vectors, i, j) ==
    (vectors[i][1] - vectors[j][1]) * (vectors[i][1] - vectors[j][1])
  + (vectors[i][2] - vectors[j][2]) * (vectors[i][2] - vectors[j][2])

\* stack() enumerates the matrix row by row; line 316 keeps From < To
StackedPairs(structure) ==
    LET n == Len(structure)
        cell(k) == <<((k - 1) \div n) + 1, ((k - 1) % n) + 1>>
    IN SelectSeq([k \in 1..(n * n) |-> cell(k)],
                 LAMBDA c : CoordLess(structure[c[1]][1], structure[c[2]][1]))

\* insertion of one row into a list sorted by Distance (sort_values)
RECURSIVE InsertByDistance(_, _)
InsertByDistance(sorted, row) ==
    IF sorted = <<>> THEN <<row>>
    ELSE IF row.Distance < Head(sorted).Distance
         THEN <<row>> \o sorted
         ELSE <<Head(sorted)>> \o InsertByDistance(Tail(sorted), row)

RECURSIVE SortByDistance(_)
SortByDistance(rows) ==
    IF rows = <<>> THEN <<>>
    ELSE InsertByDistance(SortByDistance(SubSeq(rows, 1, Len(rows) - 1)),
                          rows[Len(rows)])

\* the pair (sorted_distances, sorted_label_combinations) as one sequence of
\* rows [Distance, From, To, labels]
geometric_signature(structure) ==
    LET v     == CenteredVectors(structure)
        pairs == StackedPairs(structure)
        rows  == [k \in 1..Len(pairs) |->
                    [Distance |-> DistanceSq(v, pairs[k][1], pairs[k][2]),
                     From     |-> structure[pairs[k][1]][1],
                     To       |-> structure[pairs[k][2]][1],
                     labels   |-> <<structure[pairs[k][1]][2],
                                    structure[pairs[k][2]][2]>>]]
    IN SortByDistance(rows)

\* variant: the label tuple is not sorted
NormalizedLabelsBug(l) == l

\* tuple(sorted(label)), line 340
NormalizedLabels(l) == IF LabelLess(l[2], l[1]) THEN <<l[2], l[1]>> ELSE l

\* variant: only the number of labels under distance d is compared
BucketBug(sig, d) == Cardinality({k \in 1..Len(sig) : sig[k].Distance = d})

\* the labels appended under distance d (the defaultdict bucket), as the
\* bag that sorted(...) == sorted(...) compares
Bucket(sig, d) ==
    LET idx == {k \in 1..Len(sig) : sig[k].Distance = d}
        labs == {NormalizedLabels(sig[k].labels) : k \in idx}
    IN [l \in labs |-> Cardinality({k \in idx : NormalizedLabels(sig[k].labels) = l})]

\* variant: the lengths are not compared
compare_structuresBug(sig1, sig2) ==
    \A d \in {sig1[k].Distance : k \in 1..Len(sig1)} :
        /\ d \in {sig2[k].Distance : k \in 1..Len(sig2)}
        /\ Bucket(sig1, d) = Bucket(sig2, d)

compare_structures(sig1, sig2) ==
    IF Len(sig1) # Len(sig2) THEN FALSE
    ELSE \A d \in {sig1[k].Distance : k \in 1..Len(sig1)} :
            /\ d \in {sig2[k].Distance : k \in 1..Len(sig2)}
            /\ Bucket(sig1, d) = Bucket(sig2, d)

(***************************************************************************)
(* The spot table (adata.obs) and the state of the pipeline.               *)
(***************************************************************************)
VARIABLES
    adata,                  \* sample -> (coordinate -> label), its spot_dict
    fdr_filtered_2nd,       \* the significant-pair table: set of <<Leiden1, Leiden2>>
    fc_threshold,           \* rational
    coverage_threshold,     \* rational
    p_threshold,            \* thousandths
    pc,                     \* "seed", "start", "loop", "done"
    structures_2nd,         \* sample -> dict of the 2-node base structures
    sample_wise_structures, \* sample -> dict of the 3-node structures
    grouped_structures,     \* seed grouping: list of lists of <<sample, sid>>
    initial_structures,     \* argument of iterative_structure_analysis
    extracted_structures,
    last_valid_structures,
    iteration,
    round_input,            \* extracted_structures at the start of the last round
    new_structures,         \* expansion of the last round
    grouped,                \* grouping of the last round
    df_results,             \* statistics table of the last round
    halt_reason,            \* which break ended the loop
    set_order,              \* the iteration order of Python sets in this run
    motif,                  \* signature study: a motif as first given
    image,                  \* signature study: the motif after the maps applied
    call,                   \* compute_groupwise_adjacency_matrix: its arguments
    adjacency,              \* compute_groupwise_adjacency_matrix: what it computed
    df_counts,              \* statistics table of the seed grouping
    adjusted_p_threshold,   \* argument of filter_unique_significant_structures
    df_unique_filtered,     \* what filter_unique_significant_structures returns
    row_idx,                \* run_iterative_analysis_over_df: position of its row
    result_dict,            \* run_iterative_analysis_over_df: row -> result
    third,                  \* relation study: a third motif
    verdicts                \* relation study: what compare_structures returned

vars == <<adata, fdr_filtered_2nd, fc_threshold, coverage_threshold, p_threshold,
          pc, structures_2nd, sample_wise_structures, grouped_structures,
          initial_structures, extracted_structures, last_valid_structures,
          iteration, round_input, new_structures, grouped, df_results,
          halt_reason, set_order, motif, image, call, adjacency, df_counts,
          adjusted_p_threshold, df_unique_filtered, row_idx, result_dict,
          third, verdicts>>

\* the variables of the signature study, which the pipeline leaves alone
sigvars == <<motif, image>>

\* the variables of compute_groupwise_adjacency_matrix
adjvars == <<call, adjacency>>

\* the variables of filter_unique_significant_structures
filtervars == <<adjusted_p_threshold, df_unique_filtered>>

\* the variables of the loop of run_iterative_analysis_over_df
runvars == <<row_idx, result_dict>>

\* the variables of the study of compare_structures as a relation
relvars == <<third, verdicts>>

\* the arrangement of spots the samples are cut from: its first four spots
\* already show every kind of offset
Strip ==
    << <<0, 0>>, <<1, 1>>, <<0, 2>>, <<1, 0>>, <<1, 2>>, <<0, 1>>, <<0, 3>>, <<1, 3>> >>

CoordOf(k) == Strip[k]

\* the spot tables of one sample: the first k spots, labelled freely
SpotTables ==
    UNION {[{CoordOf(i) : i \in 1..k} -> Labels] : k \in 1..MaxSpots}

\* the first k spots of a table
Section(table, k) == [c \in {CoordOf(i) : i \in 1..k} |-> table[c]]

\* the sizes of the samples cut from a table: the first sample is the whole
\* table, every further sample a section of the one before
SectionSizes(table) ==
    {sz \in [Samples -> 1..Cardinality(DOMAIN table)] :
        /\ sz[1] = Cardinality(DOMAIN table)
        /\ \A smp \in Samples \ {NSamples} : sz[smp] >= sz[smp + 1]}

\* the spot tables of all samples
SpotData ==
    UNION {{[smp \in Samples |-> Section(table, sz[smp])] : sz \in SectionSizes(table)} :
             table \in SpotTables}

\* the order in which the rows of adata.obs list the spots of a sample
SpotOrder(spot_dict) == SortCoords(DOMAIN spot_dict)

(***************************************************************************)
(* Seed step of extract_and_group_3rd_structures_from_2nd_with_ratio.      *)
(***************************************************************************)
\* tuple(sorted(pair)) of the Python set {l1, l2}: one element when l1 = l2
PairKey(l1, l2) == IF l1 = l2 THEN <<l1>> ELSE NormalizedLabels(<<l1, l2>>)

\* the set of sorted label tuples of the significant-pair table, line 479
SignificantKeys(table) == {NormalizedLabels(row) : row \in table}

\* variant: the pair of coordinates is not looked up in visited_2nd
Visit2ndBug(spot_dict, keys, p, nb, st) ==
    IF /\ nb \in DOMAIN spot_dict
       /\ PairKey(spot_dict[p], spot_dict[nb]) \in keys
    THEN [dict    |-> Append(st.dict,
                        [key   |-> Len(st.dict),
                         nodes |-> << <<p, spot_dict[p]>>, <<nb, spot_dict[nb]>> >>]),
          visited |-> st.visited \cup {{p, nb}}]
    ELSE st

\* lines 476-483, one neighbour offset of one spot;
\* st = [dict |-> structures_2nd, visited |-> visited_2nd]
Visit2nd(spot_dict, keys, p, nb, st) ==
    IF /\ {p, nb} \notin st.visited
       /\ nb \in DOMAIN spot_dict
       /\ PairKey(spot_dict[p], spot_dict[nb]) \in keys
    THEN [dict    |-> Append(st.dict,
                        [key   |-> Len(st.dict),
                         nodes |-> << <<p, spot_dict[p]>>, <<nb, spot_dict[nb]>> >>]),
          visited |-> st.visited \cup {{p, nb}}]
    ELSE st

\* line 475: the offsets of one spot from the i-th on
RECURSIVE Scan2ndOffsets(_, _, _, _, _)
Scan2ndOffsets(spot_dict, keys, p, i, st) ==
    IF i > Len(neighbors_offset) THEN st
    ELSE CHOOSE out \in
            {Scan2ndOffsets(spot_dict, keys, p, i + 1, nxt) :
                nxt \in {Visit2nd(spot_dict, keys, p, NeighborsOf(p)[i], st)}} : TRUE

\* line 474: the spots of the sample from the k-th on
RECURSIVE Scan2ndSpots(_, _, _, _, _)
Scan2ndSpots(spot_dict, keys, order, k, st) ==
    IF k > Len(order) THEN st
    ELSE CHOOSE out \in
            {Scan2ndSpots(spot_dict, keys, order, k + 1, nxt) :
                nxt \in {Scan2ndOffsets(spot_dict, keys, order[k], 1, st)}} : TRUE

Structures2nd(spot_dict, table) ==
    Scan2ndSpots(spot_dict, SignificantKeys(table), SpotOrder(spot_dict), 1,
                 [dict |-> <<>>, visited |-> {}]).dict

\* lines 492-498, one neighbour offset of one endpoint of the base structure
\* pts; st = [dict |-> structures_3rd, visited |-> visited_3rd]
\* variant: visited_3rd is not consulted
Visit3rdBug(spot_dict, pts, nb, st) ==
    IF /\ nb \in DOMAIN spot_dict
       /\ nb \notin {pts[1][1], pts[2][1]}
    THEN [dict    |-> Append(st.dict,
                        [key   |-> Len(st.dict),
                         nodes |-> Append(pts, <<nb, spot_dict[nb]>>)]),
          visited |-> st.visited \cup {<<pts[1][1], pts[2][1], nb>>}]
    ELSE st

Visit3rd(spot_dict, pts, nb, st) ==
    IF /\ <<pts[1][1], pts[2][1], nb>> \notin st.visited
       /\ nb \in DOMAIN spot_dict
       /\ nb \notin {pts[1][1], pts[2][1]}
    THEN [dict    |-> Append(st.dict,
                        [key   |-> Len(st.dict),
                         nodes |-> Append(pts, <<nb, spot_dict[nb]>>)]),
          visited |-> st.visited \cup {<<pts[1][1], pts[2][1], nb>>}]
    ELSE st

\* line 491: the offsets of one endpoint p from the i-th on
RECURSIVE Scan3rdOffsets(_, _, _, _, _)
Scan3rdOffsets(spot_dict, pts, p, i, st) ==
    IF i > Len(neighbors_offset) THEN st
    ELSE CHOOSE out \in
            {Scan3rdOffsets(spot_dict, pts, p, i + 1, nxt) :
                nxt \in {Visit3rd(spot_dict, pts, NeighborsOf(p)[i], st)}} : TRUE

\* lines 488-490: the base structures from the k-th on, for each its two
\* endpoints in turn
RECURSIVE Scan3rdStructures(_, _, _, _)
Scan3rdStructures(spot_dict, s2, k, st) ==
    IF k > Len(s2) THEN st
    ELSE CHOOSE out \in
            {Scan3rdStructures(spot_dict, s2, k + 1, nxt) :
                nxt \in {Scan3rdOffsets(spot_dict, s2[k].nodes, s2[k].nodes[2][1], 1, mid) :
                    mid \in {Scan3rdOffsets(spot_dict, s2[k].nodes,
                                            s2[k].nodes[1][1], 1, st)}}} : TRUE

Structures3rd(spot_dict, s2) ==
    Scan3rdStructures(spot_dict, s2, 1, [dict |-> <<>>, visited |-> {}]).dict

(***************************************************************************)
(* expand_structure: one node more for every structure of the dict.        *)
(* A dict of structures is a sequence of entries [key, nodes] with         *)
(* key = <<sample, k>> for the name (sample, "structure_k").               *)
(***************************************************************************)
\* variant: the nodes of the motif are not left out
PotentialNewNodesBug(spot_dict, points) ==
    {nb \in UNION {Range(NeighborsOf(points[i][1])) : i \in DOMAIN points} :
        nb \in DOMAIN spot_dict}

\* lines 867, 882-890: the spots next to a node that are not nodes themselves
PotentialNewNodes(spot_dict, points) ==
    LET existing_points == {points[i][1] : i \in DOMAIN points}
    IN {nb \in UNION {Range(NeighborsOf(pt)) : pt \in existing_points} :
            nb \in DOMAIN spot_dict /\ nb \notin existing_points}

\* the order in which Python iterates the set potential_new_nodes: it depends
\* on the hashes of its elements, so either order of the coordinates is taken
SetOrders == {"ascending", "descending"}

IterationOrder(S, order) ==
    IF order = "ascending" THEN SortCoords(S) ELSE Reverse(SortCoords(S))

\* variant: the new node is put in front of the motif
NewEntriesBug(sample, points, spot_dict, new_nodes, structure_id) ==
    [i \in 1..Len(new_nodes) |->
        [key   |-> <<sample, structure_id + i - 1>>,
         nodes |-> <<<<new_nodes[i], spot_dict[new_nodes[i]]>>>> \o points]]

\* lines 897-905 for one structure: one new entry for every new node
NewEntries(sample, points, spot_dict, new_nodes, structure_id) ==
    [i \in 1..Len(new_nodes) |->
        [key   |-> <<sample, structure_id + i - 1>>,
         nodes |-> Append(points, <<new_nodes[i], spot_dict[new_nodes[i]]>>)]]

\* lines 865-905 for one structure of the dict: its new entries are numbered
\* on from the size of expanded_structures
ExpandOne(entry, spots, order, expanded_structures) ==
    LET sample    == entry.key[1]
        spot_dict == spots[sample]
        new_nodes == IterationOrder(PotentialNewNodes(spot_dict, entry.nodes), order)
    IN expanded_structures
         \o NewEntries(sample, entry.nodes, spot_dict, new_nodes,
                       Len(expanded_structures))

\* line 865: the structures of the dict from the k-th on
RECURSIVE ExpandFrom(_, _, _, _, _)
ExpandFrom(structure_dict, spots, order, k, expanded_structures) ==
    IF k > Len(structure_dict) THEN expanded_structures
    ELSE CHOOSE out \in
            {ExpandFrom(structure_dict, spots, order, k + 1, nxt) :
                nxt \in {ExpandOne(structure_dict[k], spots, order,
                                   expanded_structures)}} : TRUE

expand_structure(structure_dict, spots, order) ==
    IF structure_dict = <<>> THEN <<>>
    ELSE ExpandFrom(structure_dict, spots, order, 1, <<>>)

(***************************************************************************)
(* Grouping: the seed grouping (lines 513-526) and                         *)
(* group_structures_by_geometry (lines 689-732).  A grouping is the list   *)
(* of its groups in formation order (group id = position - 1); a group is  *)
(* the list of the keys of its members.                                    *)
(***************************************************************************)
NodesOf(structures_dict, key) ==
    (CHOOSE e \in Range(structures_dict) : e.key = key).nodes

\* variant: only the group formed last is looked at
MatchedGroupBug(refs, sig) ==
    IF refs # <<>> /\ compare_structures(sig, refs[Len(refs)]) THEN Len(refs) ELSE 0

\* the first group whose first member matches, 0 when there is none;
\* refs[g] is the signature of the first member of group g
MatchedGroup(refs, sig) ==
    LET hits == {g \in 1..Len(refs) : compare_structures(sig, refs[g])}
    IN IF hits = {} THEN 0 ELSE CHOOSE g \in hits : \A h \in hits : g <= h

\* variant: every entry starts a group of its own
PlaceBug(entry, st) ==
    [groups |-> Append(st.groups, <<entry.key>>),
     refs   |-> Append(st.refs, geometric_signature(entry.nodes))]

\* one entry of the greedy loop: it joins the first group whose first member
\* matches or starts a group of its own; st = [groups, refs]
Place(entry, st) ==
    LET sig     == geometric_signature(entry.nodes)
        matched == MatchedGroup(st.refs, sig)
    IN IF matched # 0
       THEN [groups |-> [st.groups EXCEPT ![matched] = Append(@, entry.key)],
             refs   |-> st.refs]
       ELSE [groups |-> Append(st.groups, <<entry.key>>),
             refs   |-> Append(st.refs, sig)]

\* the greedy loop over the entries from the k-th on
RECURSIVE GreedyGroups(_, _, _)
GreedyGroups(entries, k, st) ==
    IF k > Len(entries) THEN st
    ELSE CHOOSE out \in
            {GreedyGroups(entries, k + 1, nxt) : nxt \in {Place(entries[k], st)}} : TRUE

\* frozenset of the labels of a structure, line 684
LabelSet(nodes) == {nodes[i][2] : i \in DOMAIN nodes}

\* group_by_label_sets: the structures by label set, the label sets in the
\* order of their first structure; flattened to the order the caller visits
group_by_label_sets(structures_dict) ==
    LET sets == [i \in 1..Len(structures_dict) |-> LabelSet(structures_dict[i].nodes)]
        RECURSIVE Firsts(_, _)
        Firsts(i, seen) ==
            IF i > Len(sets) THEN <<>>
            ELSE IF sets[i] \in seen THEN Firsts(i + 1, seen)
            ELSE <<sets[i]>> \o Firsts(i + 1, seen \cup {sets[i]})
        RECURSIVE Flat(_)
        Flat(f) == IF f = <<>> THEN <<>>
                   ELSE SelectSeq(structures_dict,
                                  LAMBDA e : LabelSet(e.nodes) = Head(f))
                        \o Flat(Tail(f))
    IN Flat(Firsts(1, {}))

group_structures_by_geometry(structures_dict) ==
    GreedyGroups(group_by_label_sets(structures_dict), 1,
                 [groups |-> <<>>, refs |-> <<>>]).groups

\* the seed grouping visits the structures sample by sample, in dict order:
\* the entries of the samples from smp on, under the key <<sample, sid>>
RECURSIVE SeedDictFrom(_, _)
SeedDictFrom(sws, smp) ==
    IF smp > NSamples THEN <<>>
    ELSE [i \in 1..Len(sws[smp]) |->
            [key |-> <<smp, sws[smp][i].key>>, nodes |-> sws[smp][i].nodes]]
         \o SeedDictFrom(sws, smp + 1)

SeedDict(sws) == SeedDictFrom(sws, 1)

SeedGrouping(sws) ==
    GreedyGroups(SeedDict(sws), 1, [groups |-> <<>>, refs |-> <<>>]).groups

(***************************************************************************)
(* analyze_structure_groups: the statistics table of a grouping.           *)
(*                                                                         *)
(* mannwhitneyu is a library routine: the p-values it returns are inputs   *)
(* of the model, in thousandths.  With a single group the list of the      *)
(* other groups' ratios is empty, its mean is NaN and the test is          *)
(* degenerate: the p-value is the fallback 1 of the except branch or NaN.  *)
(***************************************************************************)
\* 1 / 1e-9, the denominator floor of lines 800 and 803
EpsInverse == 1000000000

\* the p-value NaN: with a single group other_ratios is np.mean([], axis=0),
\* which is NaN, and mannwhitneyu then either raises the ValueError caught at
\* line 815 (p = 1.0) or returns NaN, depending on the scipy installed
NaN == -1

\* variant: the members of a group are counted whatever their sample
CountInBug(group, sample) == Len(group)

\* np.sum(group_counts[gid]) and the number of samples with a member
CountIn(group, sample) == Cardinality({i \in DOMAIN group : group[i][1] = sample})

\* variant: the mean is taken over all groups, the group itself included
CountMeanOtherBug(groups, focus_sample_ids, g) ==
    <<SumSeq([h \in 1..Len(groups) |-> Len(groups[h])]),
      Len(groups) * Cardinality(focus_sample_ids)>>

\* lines 799-802: the sum of the other groups' counts, over (m - 1) groups;
\* <<0, 0>> stands for the 1e-9 used when there is no other group or the
\* mean is 0
CountMeanOther(groups, focus_sample_ids, g) ==
    LET others == {h \in 1..Len(groups) : h # g}
        total  == SumSeq([h \in 1..Len(groups) |->
                            IF h = g THEN 0 ELSE Len(groups[h])])
    IN IF others = {} \/ total = 0 THEN <<0, 0>>
       ELSE <<total, Cardinality(others) * Cardinality(focus_sample_ids)>>

\* fdr_bh of statsmodels: p(j) * m / j, minimum from the right, at most 1
AdjustedP(pvals, g) ==
    IF pvals[g] = NaN THEN <<NaN, 1>> ELSE
    LET m       == Len(pvals)
        rank(h)  == Cardinality({k \in 1..m : pvals[k] <= pvals[h]})
        cands   == {<<pvals[h] * m, rank(h)>> : h \in {k \in 1..m : pvals[k] >= pvals[g]}}
                     \cup {<<1000, 1>>}
    IN CHOOSE a \in cands : \A b \in cands : RatLeq(a, b)

\* Fold_Change > fc for Fold_Change = Count_Mean / Count_Mean_Other, line 803
FoldChangeAbove(row, fc) ==
    IF row.Count_Mean_Other = <<0, 0>>
    THEN row.Count_Mean[1] * fc[2] > (fc[1] * row.Count_Mean[2]) \div EpsInverse
    ELSE row.Count_Mean[1] * row.Count_Mean_Other[2] * fc[2]
            > fc[1] * row.Count_Mean_Other[1] * row.Count_Mean[2]

\* variant: the coverage is not looked at
SignificantFlagBug(row, fc, p_thr, cov) ==
    /\ row.P_Value # NaN
    /\ RatLess(row.Adjusted_P, <<p_thr, 1>>)
    /\ FoldChangeAbove(row, fc)

\* lines 588-592 and 823-827
SignificantFlag(row, fc, p_thr, cov) ==
    /\ row.P_Value # NaN
    /\ RatLess(row.Adjusted_P, <<p_thr, 1>>)
    /\ FoldChangeAbove(row, fc)
    /\ RatLeq(cov, row.Coverage)

\* sort_values(by="Adjusted_P"): insertion sort, which keeps the order of ties
RECURSIVE InsertByAdjustedP(_, _)
InsertByAdjustedP(sorted, row) ==
    IF sorted = <<>> THEN <<row>>
    ELSE IF RatLess(row.Adjusted_P, Head(sorted).Adjusted_P)
         THEN <<row>> \o sorted
         ELSE <<Head(sorted)>> \o InsertByAdjustedP(Tail(sorted), row)

RECURSIVE SortByAdjustedP(_)
SortByAdjustedP(rows) ==
    IF rows = <<>> THEN <<>>
    ELSE InsertByAdjustedP(SortByAdjustedP(SubSeq(rows, 1, Len(rows) - 1)),
                           rows[Len(rows)])

analyze_structure_groups(groups, focus_sample_ids, pvals, fc, p_thr, cov) ==
    LET total_samples == Cardinality(focus_sample_ids)
        base(g) ==
            [Group_ID         |-> g - 1,
             Count_Sample     |-> Cardinality({smp \in focus_sample_ids :
                                                 CountIn(groups[g], smp) > 0}),
             Count_Mean       |-> <<Len(groups[g]), total_samples>>,
             Count_Mean_Other |-> CountMeanOther(groups, focus_sample_ids, g),
             Coverage         |-> <<Cardinality({smp \in focus_sample_ids :
                                                 CountIn(groups[g], smp) > 0}),
                                    total_samples>>,
             P_Value          |-> pvals[g],
             Adjusted_P       |-> AdjustedP(pvals, g)]
        row(g) == [Significant |-> SignificantFlag(base(g), fc, p_thr, cov)] @@ base(g)
    IN SortByAdjustedP([g \in 1..Len(groups) |-> row(g)])

\* the p-values the tests of one table return: one group apart from the
\* others, at the levels <<its p-value, the p-value of the others>>
PValuePatterns == {<<10, 1000>>}

PValueChoices(groups) ==
    IF Len(groups) = 1 THEN {<<1000>>, <<NaN>>}
    ELSE {[g \in 1..Len(groups) |-> IF g = f THEN lv[1] ELSE lv[2]] :
            f \in 1..Len(groups), lv \in PValuePatterns}
         \cup {[g \in 1..Len(groups) |-> 1000]}

(***************************************************************************)
(* iterative_structure_analysis, one pass of its while loop per step.      *)
(***************************************************************************)
\* every sample of the table belongs to the focus group
focus_sample_ids == Samples

\* df_results.query("Fold_Change > fc_threshold"), line 943
FoldFiltered(df, fc) == SelectSeq(df, LAMBDA row : FoldChangeAbove(row, fc))

\* df_filtered["Coverage"].max() < coverage_threshold, lines 949-951
CoverageInsufficient(df_filtered, cov) ==
    \A i \in DOMAIN df_filtered : RatLess(df_filtered[i].Coverage, cov)

\* variant: the row with the largest P_Value is taken
BestRowBug(df_filtered) ==
    LET i == CHOOSE i \in DOMAIN df_filtered :
                \A j \in DOMAIN df_filtered :
                    df_filtered[i].P_Value >= df_filtered[j].P_Value
    IN df_filtered[i]

\* df_filtered["P_Value"].idxmin(): the first row holding the minimum
BestRow(df_filtered) ==
    LET i == CHOOSE i \in DOMAIN df_filtered :
                /\ \A j \in DOMAIN df_filtered :
                      df_filtered[i].P_Value <= df_filtered[j].P_Value
                /\ \A j \in 1..(i - 1) :
                      df_filtered[j].P_Value # df_filtered[i].P_Value
    IN df_filtered[i]

\* idxmin skips NaN: with no other value it yields no row label and line 957
\* raises
IdxMinFails(df_filtered) ==
    \A i \in DOMAIN df_filtered : df_filtered[i].P_Value = NaN

\* lines 961-964: the members of the best group with their expanded nodes
NextStructures(expanded, members) ==
    [i \in 1..Len(members) |->
        [key |-> members[i], nodes |-> NodesOf(expanded, members[i])]]

\* rounds are counted up to this ceiling, which the loop never reaches
MaxIter == MaxSpots + 2

\* variant: the halting round's expansion is returned
HaltBug(reason, expanded, groups, df) ==
    /\ pc' = "done"
    /\ halt_reason' = reason
    /\ new_structures' = expanded
    /\ grouped' = groups
    /\ df_results' = df
    /\ last_valid_structures' = expanded
    /\ UNCHANGED extracted_structures

\* variant: the break does not leave the loop
HaltKeepsLooping(reason, expanded, groups, df) ==
    /\ pc' = "loop"
    /\ halt_reason' = reason
    /\ new_structures' = expanded
    /\ grouped' = groups
    /\ df_results' = df
    /\ UNCHANGED <<extracted_structures, last_valid_structures>>

\* the breaks of lines 928-930, 944-946 and 951-953, then the return of 971
Halt(reason, expanded, groups, df) ==
    /\ pc' = "done"
    /\ halt_reason' = reason
    /\ new_structures' = expanded
    /\ grouped' = groups
    /\ df_results' = df
    /\ UNCHANGED <<extracted_structures, last_valid_structures>>

\* the exception of line 957 leaves the function: nothing is returned
Raise(expanded, groups, df) ==
    /\ pc' = "raised"
    /\ halt_reason' = "exception"
    /\ new_structures' = expanded
    /\ grouped' = groups
    /\ df_results' = df
    /\ UNCHANGED <<extracted_structures, last_valid_structures>>

\* variant: the current motifs are not replaced by the selected group
ContinueBug(expanded, groups, df, next_structures) ==
    /\ pc' = "loop"
    /\ halt_reason' = halt_reason
    /\ new_structures' = expanded
    /\ grouped' = groups
    /\ df_results' = df
    /\ last_valid_structures' = next_structures
    /\ extracted_structures' = extracted_structures

\* lines 956-968
Continue(expanded, groups, df, next_structures) ==
    /\ pc' = "loop"
    /\ halt_reason' = halt_reason
    /\ new_structures' = expanded
    /\ grouped' = groups
    /\ df_results' = df
    /\ last_valid_structures' = next_structures
    /\ extracted_structures' = next_structures

Round ==
    /\ pc = "loop"
    /\ iteration < MaxIter
    /\ iteration' = iteration + 1
    /\ round_input' = extracted_structures
    /\ \E expanded \in {expand_structure(extracted_structures, adata, set_order)} :
         IF expanded = <<>>
         THEN Halt("no expansion possible", expanded, <<>>, <<>>)
         ELSE \E groups \in {group_structures_by_geometry(expanded)} :
              \E pvals \in PValueChoices(groups) :
              \E df \in {analyze_structure_groups(groups, focus_sample_ids, pvals,
                            fc_threshold, p_threshold, coverage_threshold)} :
              \E df_filtered \in {FoldFiltered(df, fc_threshold)} :
                 IF df_filtered = <<>>
                 THEN Halt("no significant group", expanded, groups, df)
                 ELSE IF CoverageInsufficient(df_filtered, coverage_threshold)
                 THEN Halt("coverage insufficient", expanded, groups, df)
                 ELSE IF IdxMinFails(df_filtered)
                 THEN Raise(expanded, groups, df)
                 ELSE Continue(expanded, groups, df,
                          NextStructures(expanded,
                              groups[BestRow(df_filtered).Group_ID + 1]))
    /\ UNCHANGED <<adata, fdr_filtered_2nd, fc_threshold, coverage_threshold,
                   p_threshold, structures_2nd, sample_wise_structures,
                   grouped_structures, initial_structures, set_order, sigvars,
                   adjvars, df_counts, filtervars, runvars, relvars>>

(***************************************************************************)
(* The pipeline: seed, then one call of iterative_structure_analysis.      *)
(***************************************************************************)
\* multipletests(p_values, ...) of line 586 divides by len(p_values): with no
\* group at all it returns an empty array or raises ZeroDivisionError,
\* depending on the statsmodels installed
SeedOutcomes(groups) ==
    IF groups = <<>> THEN {"start", "seed raised"} ELSE {"start"}

\* extract_and_group_3rd_structures_from_2nd_with_ratio, called with the
\* thresholds of the run
Seed ==
    /\ pc = "seed"
    /\ structures_2nd' =
          [smp \in Samples |->
              IF smp \in focus_sample_ids
              THEN Structures2nd(adata[smp], fdr_filtered_2nd) ELSE <<>>]
    /\ sample_wise_structures' =
          [smp \in Samples |-> Structures3rd(adata[smp], structures_2nd'[smp])]
    /\ grouped_structures' = SeedGrouping(sample_wise_structures')
    /\ pc' \in SeedOutcomes(grouped_structures')
    /\ \E pvals \in PValueChoices(grouped_structures') :
          df_counts' = analyze_structure_groups(grouped_structures', focus_sample_ids,
                                                pvals, fc_threshold, p_threshold,
                                                coverage_threshold)
    /\ UNCHANGED <<adata, fdr_filtered_2nd, fc_threshold, coverage_threshold,
                   p_threshold, initial_structures, extracted_structures,
                   last_valid_structures, iteration, round_input, new_structures,
                   grouped, df_results, halt_reason, set_order, sigvars,
                   adjvars, filtervars, runvars, relvars>>

(***************************************************************************)
(* filter_unique_significant_structures (lines 601-677).                   *)
(***************************************************************************)
\* tuple(sorted(Counter(labels).items())), line 653
LabelSignature(nodes) ==
    [i \in 1..Cardinality(LabelSet(nodes)) |->
        <<SortLabels(LabelSet(nodes))[i],
          Cardinality({k \in DOMAIN nodes :
                         nodes[k][2] = SortLabels(LabelSet(nodes))[i]})>>]

\* lines 644-653; <<>> stands for None
get_structure_label_signature(group_id, groups, sws) ==
    IF group_id + 1 \notin DOMAIN groups \/ groups[group_id + 1] = <<>> THEN <<>>
    ELSE IF groups[group_id + 1][1] \notin {e.key : e \in Range(SeedDict(sws))} THEN <<>>
    ELSE LabelSignature(NodesOf(SeedDict(sws), groups[group_id + 1][1]))

\* row["P_Value"] < ..., false when either side is NaN
PLess(p, q) == p # NaN /\ q # NaN /\ p < q

\* variant: a later row of the same signature always replaces the stored one
KeepBestBug(df, signature, idx, best) ==
    IF signature = <<>> THEN best
    ELSE IF \A i \in DOMAIN best : best[i].signature # signature
    THEN Append(best, [signature |-> signature, idx |-> idx])
    ELSE [i \in DOMAIN best |->
            IF best[i].signature = signature
            THEN [signature |-> signature, idx |-> idx] ELSE best[i]]

\* lines 661-667 for one row; best is signature_to_best_idx in insertion order
KeepBest(df, signature, idx, best) ==
    IF signature = <<>> THEN best
    ELSE IF \A i \in DOMAIN best : best[i].signature # signature
    THEN Append(best, [signature |-> signature, idx |-> idx])
    ELSE [i \in DOMAIN best |->
            IF /\ best[i].signature = signature
               /\ PLess(df[idx].P_Value, df[best[i].idx].P_Value)
            THEN [signature |-> signature, idx |-> idx] ELSE best[i]]

\* lines 658-667: the rows from the idx-th on
RECURSIVE BestIndices(_, _, _, _, _)
BestIndices(df, groups, sws, idx, best) ==
    IF idx > Len(df) THEN best
    ELSE CHOOSE out \in
            {BestIndices(df, groups, sws, idx + 1, nxt) :
                nxt \in {KeepBest(df,
                                  get_structure_label_signature(df[idx].Group_ID,
                                                                groups, sws),
                                  idx, best)}} : TRUE

\* lines 670-675
filter_unique_significant_structures(df, groups, sws, threshold) ==
    LET best == BestIndices(df, groups, sws, 1, <<>>)
    IN SelectSeq(SortByAdjustedP([i \in DOMAIN best |-> df[best[i].idx]]),
                 LAMBDA row : /\ row.P_Value # NaN
                              /\ RatLeq(row.Adjusted_P, <<threshold, 1>>))

\* adjusted_p_threshold: 0.05 is the default of line 605
AdjustedPThresholds == {50, 1000}

FilterUnique ==
    /\ pc = "start"
    /\ pc' = "filtered"
    /\ adjusted_p_threshold' \in AdjustedPThresholds
    /\ df_unique_filtered' =
          filter_unique_significant_structures(df_counts, grouped_structures,
                                               sample_wise_structures,
                                               adjusted_p_threshold')
    /\ UNCHANGED <<adata, fdr_filtered_2nd, fc_threshold, coverage_threshold,
                   p_threshold, structures_2nd, sample_wise_structures,
                   grouped_structures, initial_structures, extracted_structures,
                   last_valid_structures, iteration, round_input, new_structures,
                   grouped, df_results, halt_reason, set_order, sigvars,
                   adjvars, df_counts, runvars, relvars>>

\* lines 914-916
Call(structures) ==
    /\ pc' = "loop"
    /\ initial_structures' = structures
    /\ extracted_structures' = structures
    /\ last_valid_structures' = structures
    /\ iteration' = 0
    /\ set_order' \in SetOrders
    /\ UNCHANGED <<adata, fdr_filtered_2nd, fc_threshold, coverage_threshold,
                   p_threshold, structures_2nd, sample_wise_structures,
                   grouped_structures, round_input, new_structures, grouped,
                   df_results, halt_reason, sigvars,
                   adjvars, df_counts, filtervars, runvars, relvars>>

\* run_iterative_analysis_over_df, lines 1060-1086, for the row of one group
StartGroup ==
    /\ pc = "start"
    /\ \E g \in 1..Len(grouped_structures) :
          Call(NextStructures(SeedDict(sample_wise_structures),
                              grouped_structures[g]))

\* a direct call with the 2-node base structures of all samples
StartBase ==
    /\ pc = "start"
    /\ SeedDict(structures_2nd) # <<>>
    /\ Call(SeedDict(structures_2nd))

\* a direct call with an empty dict
StartEmpty ==
    /\ pc = "start"
    /\ Call(<<>>)

\* the thresholds of the call: fc_threshold 4 and coverage_threshold 0.6 are
\* the defaults of lines 985 and 978, p_threshold 0.05 that of line 986
FcThresholds == {<<1, 4>>, <<4, 1>>}

CoverageThresholds == {<<6, 10>>}

PThresholds == {50}

\* the significant-pair tables compute_groupwise_adjacency_matrix can return:
\* ordered pairs of different labels (lines 187-190)
PairTables == SUBSET {<<"B", "A">>}

Init ==
    /\ adata \in SpotData
    /\ fdr_filtered_2nd \in PairTables
    /\ fc_threshold \in FcThresholds
    /\ coverage_threshold \in CoverageThresholds
    /\ p_threshold \in PThresholds
    /\ pc = "seed"
    /\ structures_2nd = [smp \in Samples |-> <<>>]
    /\ sample_wise_structures = [smp \in Samples |-> <<>>]
    /\ grouped_structures = <<>>
    /\ initial_structures = <<>>
    /\ extracted_structures = <<>>
    /\ last_valid_structures = <<>>
    /\ iteration = 0
    /\ round_input = <<>>
    /\ new_structures = <<>>
    /\ grouped = <<>>
    /\ df_results = <<>>
    /\ halt_reason = "none"
    /\ set_order = "ascending"
    /\ call = "none"
    /\ adjacency = "none"
    /\ df_counts = <<>>
    /\ adjusted_p_threshold = 50
    /\ df_unique_filtered = <<>>
    /\ row_idx = 1
    /\ result_dict = <<>>
    /\ third = <<>>
    /\ verdicts = "none"
    /\ motif = <<>>
    /\ image = <<>>

Next == Seed \/ FilterUnique \/ StartGroup \/ StartBase \/ StartEmpty \/ Round

Spec == Init /\ [][Next]_vars

(***************************************************************************)
(* Signature study: a motif and its image under maps of the grid.          *)
(* geometric_signature and compare_structures are pure; this second        *)
(* specification feeds them a motif and every image of it that the maps    *)
(* below produce inside a window of the grid.                              *)
(***************************************************************************)
\* the sizes of the motifs studied
MotifSizes == {2, 3}

\* the window of the grid the images stay in
Reach == MaxSpots \div 2

InWindow(nodes) ==
    \A i \in DOMAIN nodes : Abs(nodes[i][1][1]) <= Reach /\ Abs(nodes[i][1][2]) <= Reach

\* the motifs over the spots of the strip, their nodes in ascending order
SigMotifs ==
    {[i \in 1..Len(SortCoords(DOMAIN f)) |->
         <<SortCoords(DOMAIN f)[i], f[SortCoords(DOMAIN f)[i]]>>] :
       f \in UNION {[S -> Labels] :
                      S \in {T \in SUBSET {CoordOf(k) : k \in 1..MaxSpots} :
                               Cardinality(T) \in MotifSizes}}}

\* a quarter turn of the (row, col) plane about the origin
QuarterTurn(p) == <<-p[2], p[1]>>

\* the mirror image of the (row, col) plane across the row axis
Mirror(p) == <<p[1], -p[2]>>

\* the maps applied to the coordinates of a motif, the labels carried along
Shifted(nodes, d) ==
    [i \in DOMAIN nodes |-> <<<<nodes[i][1][1] + d[1], nodes[i][1][2] + d[2]>>, nodes[i][2]>>]

Turned(nodes) == [i \in DOMAIN nodes |-> <<QuarterTurn(nodes[i][1]), nodes[i][2]>>]

Mirrored(nodes) == [i \in DOMAIN nodes |-> <<Mirror(nodes[i][1]), nodes[i][2]>>]

\* one map applied: the image is replaced, the motif kept for comparison
SigStep(new_image) ==
    /\ InWindow(new_image)
    /\ image' = new_image
    /\ UNCHANGED <<motif, adata, fdr_filtered_2nd, fc_threshold, coverage_threshold,
                   p_threshold, pc, structures_2nd, sample_wise_structures,
                   grouped_structures, initial_structures, extracted_structures,
                   last_valid_structures, iteration, round_input, new_structures,
                   grouped, df_results, halt_reason, set_order,
                   adjvars, df_counts, filtervars, runvars, relvars>>

Translate ==
    \E d \in {<<1, 0>>, <<-1, 0>>, <<0, 1>>, <<0, -1>>} :
        SigStep(Shifted(image, d))

Rotate == SigStep(Turned(image))

Reflect == SigStep(Mirrored(image))

Permute ==
    \E i \in 1..(Len(image) - 1) :
        SigStep([image EXCEPT ![i] = image[i + 1], ![i + 1] = image[i]])

SigInit ==
    /\ motif \in SigMotifs
    /\ image = motif
    /\ pc = "signature"
    /\ adata = [smp \in Samples |-> <<>>]
    /\ fdr_filtered_2nd = {}
    /\ fc_threshold = <<4, 1>>
    /\ coverage_threshold = <<6, 10>>
    /\ p_threshold = 50
    /\ structures_2nd = [smp \in Samples |-> <<>>]
    /\ sample_wise_structures = [smp \in Samples |-> <<>>]
    /\ grouped_structures = <<>>
    /\ initial_structures = <<>>
    /\ extracted_structures = <<>>
    /\ last_valid_structures = <<>>
    /\ iteration = 0
    /\ round_input = <<>>
    /\ new_structures = <<>>
    /\ grouped = <<>>
    /\ df_results = <<>>
    /\ halt_reason = "none"
    /\ set_order = "ascending"
    /\ call = "none"
    /\ adjacency = "none"
    /\ df_counts = <<>>
    /\ adjusted_p_threshold = 50
    /\ df_unique_filtered = <<>>
    /\ row_idx = 1
    /\ result_dict = <<>>
    /\ third = <<>>
    /\ verdicts = "none"

SigNext == Translate \/ Rotate \/ Reflect \/ Permute

SpecSig == SigInit /\ [][SigNext]_vars

(***************************************************************************)
(* Pair study: two motifs, compared by their signatures and grouped as a   *)
(* collection of two by the seed grouping and by                           *)
(* group_structures_by_geometry.                                           *)
(***************************************************************************)
\* the spots the two motifs are taken from
PairWindow == << <<0, 0>>, <<0, 2>>, <<1, 0>>, <<1, 2>>, <<2, 0>> >>

\* the sizes of the motifs of the pair
PairSizes == 2..MaxSpots

\* the motifs over the window, their nodes in ascending order
PairMotifs ==
    {[i \in 1..Len(SortCoords(DOMAIN f)) |->
         <<SortCoords(DOMAIN f)[i], f[SortCoords(DOMAIN f)[i]]>>] :
       f \in UNION {[S -> Labels] :
                      S \in {T \in SUBSET Range(PairWindow) :
                               Cardinality(T) \in PairSizes}}}

\* the two motifs as a dict of structures of one sample
PairDict(m1, m2) ==
    << [key |-> <<1, 0>>, nodes |-> m1], [key |-> <<1, 1>>, nodes |-> m2] >>

\* the two motifs as the 3-node structures of the first two samples
PairSeeds(m1, m2) ==
    [smp \in Samples |->
        IF smp = 1 THEN << [key |-> 0, nodes |-> m1] >>
        ELSE IF smp = 2 THEN << [key |-> 0, nodes |-> m2] >>
        ELSE <<>>]

\* group_structures_by_geometry on the collection of the two motifs
GroupPair ==
    /\ pc = "pair"
    /\ pc' = "grouped by geometry"
    /\ new_structures' = PairDict(motif, image)
    /\ grouped' = group_structures_by_geometry(new_structures')
    /\ UNCHANGED <<adata, fdr_filtered_2nd, fc_threshold, coverage_threshold,
                   p_threshold, structures_2nd, sample_wise_structures,
                   grouped_structures, initial_structures, extracted_structures,
                   last_valid_structures, iteration, round_input, df_results,
                   halt_reason, set_order, sigvars,
                   adjvars, df_counts, filtervars, runvars, relvars>>

\* the seed grouping (lines 502-526) on two 3-node structures
SeedGroupPair ==
    /\ pc = "pair"
    /\ Len(motif) = 3
    /\ Len(image) = 3
    /\ pc' = "grouped by seed"
    /\ sample_wise_structures' = PairSeeds(motif, image)
    /\ grouped_structures' = SeedGrouping(sample_wise_structures')
    /\ UNCHANGED <<adata, fdr_filtered_2nd, fc_threshold, coverage_threshold,
                   p_threshold, structures_2nd, initial_structures,
                   extracted_structures, last_valid_structures, iteration,
                   round_input, new_structures, grouped, df_results,
                   halt_reason, set_order, sigvars,
                   adjvars, df_counts, filtervars, runvars, relvars>>

PairInit ==
    /\ motif \in PairMotifs
    /\ image \in PairMotifs
    /\ pc = "pair"
    /\ adata = [smp \in Samples |-> <<>>]
    /\ fdr_filtered_2nd = {}
    /\ fc_threshold = <<4, 1>>
    /\ coverage_threshold = <<6, 10>>
    /\ p_threshold = 50
    /\ structures_2nd = [smp \in Samples |-> <<>>]
    /\ sample_wise_structures = [smp \in Samples |-> <<>>]
    /\ grouped_structures = <<>>
    /\ initial_structures = <<>>
    /\ extracted_structures = <<>>
    /\ last_valid_structures = <<>>
    /\ iteration = 0
    /\ round_input = <<>>
    /\ new_structures = <<>>
    /\ grouped = <<>>
    /\ df_results = <<>>
    /\ halt_reason = "none"
    /\ set_order = "ascending"
    /\ call = "none"
    /\ adjacency = "none"
    /\ df_counts = <<>>
    /\ adjusted_p_threshold = 50
    /\ df_unique_filtered = <<>>
    /\ row_idx = 1
    /\ result_dict = <<>>
    /\ third = <<>>
    /\ verdicts = "none"

PairNext == GroupPair \/ SeedGroupPair

SpecPair == PairInit /\ [][PairNext]_vars

(***************************************************************************)
(* compute_groupwise_adjacency_matrix: the adjacency matrix of every       *)
(* sample, the group means, the tests and the filters.                     *)
(*                                                                         *)
(* A normalised entry is the rational <<count, spots of the label>>.  The  *)
(* p-values of mannwhitneyu are inputs of the model, in thousandths.       *)
(***************************************************************************)
\* lines 102-113 for one spot: what it adds to adj_counts[cl][b]
NeighbourCount(spot_dict, p, b) ==
    SumSeq([o \in 1..Len(neighbors_offset) |->
              IF /\ NeighborsOf(p)[o] \in DOMAIN spot_dict
                 /\ spot_dict[NeighborsOf(p)[o]] = b
              THEN 1 ELSE 0])

\* line 99: adj_counts[a][b] over the spots from the k-th on
RECURSIVE AdjCountsFrom(_, _, _, _, _)
AdjCountsFrom(spot_dict, order, k, a, b) ==
    IF k > Len(order) THEN 0
    ELSE (IF spot_dict[order[k]] = a
          THEN NeighbourCount(spot_dict, order[k], b) ELSE 0)
         + AdjCountsFrom(spot_dict, order, k + 1, a, b)

adj_counts(spot_dict, a, b) ==
    AdjCountsFrom(spot_dict, SpotOrder(spot_dict), 1, a, b)

\* variant: every spot of the sample is counted
leiden_countsBug(spot_dict, cl) == Cardinality(DOMAIN spot_dict)

\* value_counts of the labels of the sample, line 116
leiden_counts(spot_dict, cl) ==
    Cardinality({p \in DOMAIN spot_dict : spot_dict[p] = cl})

\* lines 115-119: DataFrame.from_dict(adj_counts, orient='index') has a row
\* for a label only when the label has a neighbour, a column for a label only
\* when it is a neighbour; then every row is divided by the label's count
adj_df(spot_dict) ==
    LET index   == {a \in Labels : \E b \in Labels : adj_counts(spot_dict, a, b) > 0}
        columns == {b \in Labels : \E a \in Labels : adj_counts(spot_dict, a, b) > 0}
    IN [index   |-> index,
        columns |-> columns,
        value   |-> [c \in index \X columns |->
                        <<adj_counts(spot_dict, c[1], c[2]),
                          leiden_counts(spot_dict, c[1])>>]]

\* line 125
all_leiden_classes(sample_adj_counts) ==
    SortLabels(UNION {sample_adj_counts[smp].index \cup sample_adj_counts[smp].columns :
                        smp \in DOMAIN sample_adj_counts})

\* line 135: an entry of the matrix after fillna(0).reindex(..., fill_value=0)
Entry(df, a, b) ==
    IF <<a, b>> \in DOMAIN df.value THEN df.value[<<a, b>>] ELSE <<0, 1>>

\* lines 130-138: the matrices of the samples of a group; xs raises KeyError
\* for a sample without rows, which is skipped
RECURSIVE GroupMatricesFrom(_, _, _, _)
GroupMatricesFrom(sample_adj_counts, class, group, smp) ==
    IF smp > NSamples THEN <<>>
    ELSE (IF class[smp] = group /\ sample_adj_counts[smp].index # {}
          THEN <<sample_adj_counts[smp]>> ELSE <<>>)
         \o GroupMatricesFrom(sample_adj_counts, class, group, smp + 1)

\* lines 128-140, by position of the group in groups; <<>> where the code
\* stores nothing
group_adj_matrices(sample_adj_counts, class, groups) ==
    [g \in DOMAIN groups |-> GroupMatricesFrom(sample_adj_counts, class, groups[g], 1)]

\* the common denominator of the normalised entries
RECURSIVE Factorial(_)
Factorial(n) == IF n <= 1 THEN 1 ELSE n * Factorial(n - 1)

\* lines 162-163: data[:, i, j]
EntryVector(data, l1, l2) == [i \in 1..Len(data) |-> Entry(data[i], l1, l2)]

\* np.any(v), line 165
AnyNonZero(v) == \E i \in DOMAIN v : v[i][1] # 0

\* np.mean(v), lines 172-173
MeanOf(v) ==
    <<SumSeq([i \in 1..Len(v) |-> v[i][1] * (Factorial(MaxSpots) \div v[i][2])]),
      Factorial(MaxSpots) * Len(v)>>

\* lines 160-161: the ordered pairs of classes, l1 outermost
ClassPairs(classes) ==
    [k \in 1..(Len(classes) * Len(classes)) |->
        <<classes[((k - 1) \div Len(classes)) + 1],
          classes[((k - 1) % Len(classes)) + 1]>>]

\* line 165: the pairs for which mannwhitneyu is called
Tested(data1, data2, pair) ==
    /\ AnyNonZero(EntryVector(data1, pair[1], pair[2]))
    /\ AnyNonZero(EntryVector(data2, pair[1], pair[2]))

\* the p-values mannwhitneyu can return for one pair
AdjPValues == {10, 1000}

\* variant: the test is run for every pair
AdjPValueChoicesBug(data1, data2, pairs) == [1..Len(pairs) -> AdjPValues]

\* lines 165-170: a p-value for every pair, 1.0 where the test is not run
AdjPValueChoices(data1, data2, pairs) ==
    {pv \in [1..Len(pairs) -> AdjPValues] :
        \A k \in 1..Len(pairs) : ~Tested(data1, data2, pairs[k]) => pv[k] = 1000}

\* lines 160-184
fdr_results(data1, data2, pairs, pvals) ==
    [k \in 1..Len(pairs) |->
        [Leiden1       |-> pairs[k][1],
         Leiden2       |-> pairs[k][2],
         group1_mean   |-> MeanOf(EntryVector(data1, pairs[k][1], pairs[k][2])),
         group2_mean   |-> MeanOf(EntryVector(data2, pairs[k][1], pairs[k][2])),
         P_value       |-> pvals[k],
         FDR_corrected |-> AdjustedP(pvals, k)]]

\* lines 187-190
fdr_filtered(results, P_value) ==
    SelectSeq(results, LAMBDA row : /\ RatLess(row.FDR_corrected, <<P_value, 1>>)
                                    /\ row.Leiden1 # row.Leiden2)

\* the columns f"{focus_group}_mean" and f"{other_group}_mean" of a row
FocusMean(row, groups, focus_group) ==
    IF groups[1] = focus_group THEN row.group1_mean ELSE row.group2_mean

OtherMean(row, groups, focus_group) ==
    IF groups[1] = focus_group THEN row.group2_mean ELSE row.group1_mean

\* fdr_filtered[f"{focus_group}_mean"].mean(), line 202
MeanOfFocusMeans(filtered, groups, focus_group) ==
    <<SumSeq([k \in 1..Len(filtered) |-> FocusMean(filtered[k], groups, focus_group)[1]]),
      FocusMean(filtered[1], groups, focus_group)[2] * Len(filtered)>>

\* variant: a focus mean equal to the mean of the focus means is enough
focus_filteredGeq(filtered, groups, focus_group, enrichment_fold) ==
    SelectSeq(filtered, LAMBDA row :
        /\ RatLess(<<enrichment_fold[1] * OtherMean(row, groups, focus_group)[1],
                     enrichment_fold[2] * OtherMean(row, groups, focus_group)[2]>>,
                   FocusMean(row, groups, focus_group))
        /\ RatLeq(MeanOfFocusMeans(filtered, groups, focus_group),
                  FocusMean(row, groups, focus_group)))

\* variant: the mean of the focus means is not looked at
focus_filteredBug(filtered, groups, focus_group, enrichment_fold) ==
    SelectSeq(filtered, LAMBDA row :
        RatLess(<<enrichment_fold[1] * OtherMean(row, groups, focus_group)[1],
                  enrichment_fold[2] * OtherMean(row, groups, focus_group)[2]>>,
                FocusMean(row, groups, focus_group)))

\* lines 199-203
focus_filtered(filtered, groups, focus_group, enrichment_fold) ==
    SelectSeq(filtered, LAMBDA row :
        /\ RatLess(<<enrichment_fold[1] * OtherMean(row, groups, focus_group)[1],
                     enrichment_fold[2] * OtherMean(row, groups, focus_group)[2]>>,
                   FocusMean(row, groups, focus_group))
        /\ RatLess(MeanOfFocusMeans(filtered, groups, focus_group),
                   FocusMean(row, groups, focus_group)))

\* the groups of the samples (adata.obs[group_key])
SampleGroups == {"G1", "G2"}

\* the arguments groups and focus_group of the calls
GroupsArgs == {<<"G1", "G2">>, <<"G2", "G1">>, <<"G1">>, <<"G1", "G2", "G3">>}

FocusArgs == {"None", "G1", "G2", "G3"}

\* enrichment_fold: 4 is the default of line 30
EnrichmentFolds == {<<4, 1>>, <<1, 2>>}

\* what the call leaves behind: how it ended, the matrices of the samples,
\* the table of all pairs, the table after lines 187-190, and the second
\* element of the returned pair
Ended(outcome, sample_adj_counts, results, filtered, returned) ==
    adjacency' = [outcome           |-> outcome,
                  sample_adj_counts |-> sample_adj_counts,
                  fdr_results       |-> results,
                  fdr_filtered      |-> filtered,
                  returned          |-> returned]

\* lines 204-205
NoFocus(sample_adj_counts, results, filtered) ==
    Ended("ValueError", sample_adj_counts, results, filtered, "nothing")

\* one call of compute_groupwise_adjacency_matrix
ComputeAdjacency ==
    /\ pc = "adjacency"
    /\ pc' = "adjacency done"
    /\ \E class \in [Samples -> SampleGroups], groups \in GroupsArgs,
          focus_group \in FocusArgs, enrichment_fold \in EnrichmentFolds,
          P_value \in PThresholds :
         /\ call' = [class |-> class, groups |-> groups, focus_group |-> focus_group,
                     enrichment_fold |-> enrichment_fold, P_value |-> P_value]
         /\ \E sample_adj_counts \in {[smp \in Samples |-> adj_df(adata[smp])]} :
            \E data \in {group_adj_matrices(sample_adj_counts, class, groups)} :
              IF \A smp \in Samples : sample_adj_counts[smp].index = {}
              \* lines 124-125: no sample has a row
              THEN \E outcome \in {"ValueError", "AttributeError"} :
                      Ended(outcome, sample_adj_counts, <<>>, <<>>, "nothing")
              ELSE IF \A g \in DOMAIN groups : data[g] = <<>>
              \* line 147: pd.concat of nothing
              THEN Ended("ValueError", sample_adj_counts, <<>>, <<>>, "nothing")
              ELSE IF Len(groups) # 2
              \* lines 149-151
              THEN Ended("returned", sample_adj_counts, <<>>, <<>>, "None")
              ELSE IF data[1] = <<>> \/ data[2] = <<>>
              \* lines 154-155
              THEN Ended("KeyError", sample_adj_counts, <<>>, <<>>, "nothing")
              ELSE \E pairs \in {ClassPairs(all_leiden_classes(sample_adj_counts))} :
                   \E pvals \in AdjPValueChoices(data[1], data[2], pairs) :
                   \E results \in {fdr_results(data[1], data[2], pairs, pvals)} :
                   \E filtered \in {fdr_filtered(results, P_value)} :
                      IF focus_group \in Range(groups)
                      THEN Ended("returned", sample_adj_counts, results, filtered,
                                 focus_filtered(filtered, groups, focus_group,
                                                enrichment_fold))
                      ELSE NoFocus(sample_adj_counts, results, filtered)
    /\ UNCHANGED <<adata, fdr_filtered_2nd, fc_threshold, coverage_threshold,
                   p_threshold, structures_2nd, sample_wise_structures,
                   grouped_structures, initial_structures, extracted_structures,
                   last_valid_structures, iteration, round_input, new_structures,
                   grouped, df_results, halt_reason, set_order, sigvars,
                   df_counts, filtervars, runvars, relvars>>

AdjInit ==
    /\ adata \in SpotData
    /\ pc = "adjacency"
    /\ call = "none"
    /\ adjacency = "none"
    /\ df_counts = <<>>
    /\ adjusted_p_threshold = 50
    /\ df_unique_filtered = <<>>
    /\ row_idx = 1
    /\ result_dict = <<>>
    /\ third = <<>>
    /\ verdicts = "none"
    /\ fdr_filtered_2nd = {}
    /\ fc_threshold = <<4, 1>>
    /\ coverage_threshold = <<6, 10>>
    /\ p_threshold = 50
    /\ structures_2nd = [smp \in Samples |-> <<>>]
    /\ sample_wise_structures = [smp \in Samples |-> <<>>]
    /\ grouped_structures = <<>>
    /\ initial_structures = <<>>
    /\ extracted_structures = <<>>
    /\ last_valid_structures = <<>>
    /\ iteration = 0
    /\ round_input = <<>>
    /\ new_structures = <<>>
    /\ grouped = <<>>
    /\ df_results = <<>>
    /\ halt_reason = "none"
    /\ set_order = "ascending"
    /\ motif = <<>>
    /\ image = <<>>

AdjNext == ComputeAdjacency

SpecAdj == AdjInit /\ [][AdjNext]_vars

(***************************************************************************)
(* run_iterative_analysis_over_df (lines 973-1090), one row of its table   *)
(* at a time, on arguments whose references may be broken: a group id of   *)
(* the table that is no key of grouped_structures, a member of a group     *)
(* that is no key of sample_wise_structures.  The table it is given is the *)
(* seed table.                                                             *)
(***************************************************************************)
\* the keys <<sample, sid>> under which sample_wise_structures holds a motif
KnownKeys(sws) == {e.key : e \in Range(SeedDict(sws))}

\* variant: a missing motif is looked up all the same
structure_detailsBug(group_id, groups, sws) ==
    IF group_id + 1 \notin DOMAIN groups THEN <<>>
    ELSE [i \in 1..Len(groups[group_id + 1]) |->
            [key   |-> groups[group_id + 1][i],
             nodes |-> IF groups[group_id + 1][i] \in KnownKeys(sws)
                       THEN NodesOf(SeedDict(sws), groups[group_id + 1][i])
                       ELSE <<>>]]

\* lines 1063-1075: the motifs of the group of a row that are found; <<>>
\* when the group id is no key of grouped_structures.  A sample that is
\* missing and a structure that is missing are both passed over with a print
structure_details(group_id, groups, sws) ==
    IF group_id + 1 \notin DOMAIN groups THEN <<>>
    ELSE NextStructures(SeedDict(sws),
                        SelectSeq(groups[group_id + 1],
                                  LAMBDA key : key \in KnownKeys(sws)))

\* line 1058
BeginRun ==
    /\ pc = "start"
    /\ pc' = "rows"
    /\ row_idx' = 1
    /\ result_dict' = <<>>
    /\ UNCHANGED <<adata, fdr_filtered_2nd, fc_threshold, coverage_threshold,
                   p_threshold, structures_2nd, sample_wise_structures,
                   grouped_structures, initial_structures, extracted_structures,
                   last_valid_structures, iteration, round_input, new_structures,
                   grouped, df_results, halt_reason, set_order, sigvars,
                   adjvars, df_counts, filtervars, relvars>>

\* lines 1063-1065 and 1077-1079: the row is passed over
SkipRow ==
    /\ pc = "rows"
    /\ row_idx <= Len(df_counts)
    /\ structure_details(df_counts[row_idx].Group_ID, grouped_structures,
                         sample_wise_structures) = <<>>
    /\ row_idx' = row_idx + 1
    /\ UNCHANGED <<adata, fdr_filtered_2nd, fc_threshold, coverage_threshold,
                   p_threshold, pc, structures_2nd, sample_wise_structures,
                   grouped_structures, initial_structures, extracted_structures,
                   last_valid_structures, iteration, round_input, new_structures,
                   grouped, df_results, halt_reason, set_order, sigvars,
                   adjvars, df_counts, filtervars, result_dict, relvars>>

\* lines 1081-1084: iterative_structure_analysis is entered
RunRow ==
    /\ pc = "rows"
    /\ row_idx <= Len(df_counts)
    /\ structure_details(df_counts[row_idx].Group_ID, grouped_structures,
                         sample_wise_structures) # <<>>
    /\ Call(structure_details(df_counts[row_idx].Group_ID, grouped_structures,
                              sample_wise_structures))

\* result_dict[idx] = result
Stored(dict, idx, result) ==
    [k \in (DOMAIN dict) \cup {idx} |-> IF k = idx THEN result ELSE dict[k]]

\* line 1085
StoreResult ==
    /\ pc = "done"
    /\ pc' = "rows"
    /\ result_dict' = Stored(result_dict, row_idx, last_valid_structures)
    /\ row_idx' = row_idx + 1
    /\ UNCHANGED <<adata, fdr_filtered_2nd, fc_threshold, coverage_threshold,
                   p_threshold, structures_2nd, sample_wise_structures,
                   grouped_structures, initial_structures, extracted_structures,
                   last_valid_structures, iteration, round_input, new_structures,
                   grouped, df_results, halt_reason, set_order, sigvars,
                   adjvars, df_counts, filtervars, relvars>>

\* lines 1086-1087: the exception of the row is printed
CatchError ==
    /\ pc = "raised"
    /\ pc' = "rows"
    /\ row_idx' = row_idx + 1
    /\ UNCHANGED <<adata, fdr_filtered_2nd, fc_threshold, coverage_threshold,
                   p_threshold, structures_2nd, sample_wise_structures,
                   grouped_structures, initial_structures, extracted_structures,
                   last_valid_structures, iteration, round_input, new_structures,
                   grouped, df_results, halt_reason, set_order, sigvars,
                   adjvars, df_counts, filtervars, result_dict, relvars>>

\* line 1089
ReturnResults ==
    /\ pc = "rows"
    /\ row_idx > Len(df_counts)
    /\ pc' = "returned"
    /\ UNCHANGED <<adata, fdr_filtered_2nd, fc_threshold, coverage_threshold,
                   p_threshold, structures_2nd, sample_wise_structures,
                   grouped_structures, initial_structures, extracted_structures,
                   last_valid_structures, iteration, round_input, new_structures,
                   grouped, df_results, halt_reason, set_order, sigvars,
                   adjvars, df_counts, filtervars, runvars, relvars>>

\* grouped_structures as the seed left it, or with one key deleted
BrokenGroupings(groups) ==
    {groups} \cup {[g \in (DOMAIN groups) \ {d} |-> groups[g]] : d \in DOMAIN groups}

\* sample_wise_structures as the seed left it, with the motifs of one sample
\* deleted, or with one motif deleted
BrokenStructures(sws) ==
    {sws} \cup {[sws EXCEPT ![smp] = <<>>] : smp \in Samples}
          \cup UNION {{[sws EXCEPT ![smp] = SubSeq(@, 1, k - 1) \o SubSeq(@, k + 1, Len(@))] :
                          k \in 1..Len(sws[smp])} : smp \in Samples}

\* the state after the seed step on the pair table {(B, A)}, with the
\* references then broken
RunInit ==
    /\ adata \in SpotData
    /\ fdr_filtered_2nd = {<<"B", "A">>}
    /\ fc_threshold \in FcThresholds
    /\ coverage_threshold \in CoverageThresholds
    /\ p_threshold \in PThresholds
    /\ pc = "start"
    /\ structures_2nd = [smp \in Samples |-> Structures2nd(adata[smp], fdr_filtered_2nd)]
    /\ \E sws \in {[smp \in Samples |-> Structures3rd(adata[smp], structures_2nd[smp])]} :
       \E groups \in {SeedGrouping(sws)} :
          /\ groups # <<>>
          /\ sample_wise_structures \in BrokenStructures(sws)
          /\ grouped_structures \in BrokenGroupings(groups)
          /\ df_counts = analyze_structure_groups(groups, focus_sample_ids,
                                                  [g \in 1..Len(groups) |-> 1000],
                                                  fc_threshold, p_threshold,
                                                  coverage_threshold)
    /\ initial_structures = <<>>
    /\ extracted_structures = <<>>
    /\ last_valid_structures = <<>>
    /\ iteration = 0
    /\ round_input = <<>>
    /\ new_structures = <<>>
    /\ grouped = <<>>
    /\ df_results = <<>>
    /\ halt_reason = "none"
    /\ set_order = "ascending"
    /\ call = "none"
    /\ adjacency = "none"
    /\ adjusted_p_threshold = 50
    /\ df_unique_filtered = <<>>
    /\ row_idx = 1
    /\ result_dict = <<>>
    /\ third = <<>>
    /\ verdicts = "none"
    /\ motif = <<>>
    /\ image = <<>>

RunNext ==
    \/ FilterUnique \/ BeginRun \/ SkipRow \/ RunRow \/ Round \/ StoreResult
    \/ CatchError \/ ReturnResults

SpecRun == RunInit /\ [][RunNext]_vars

(***************************************************************************)
(* compare_structures as a relation: it is applied to the signatures of    *)
(* three motifs, in the combinations that reflexivity, symmetry and        *)
(* transitivity speak of.  The first two motifs are every unordered pair,  *)
(* the third is any motif, so the two chains a-b-c and b-a-c cover every   *)
(* ordered triple.                                                         *)
(***************************************************************************)
\* the spots the three motifs are taken from
RelWindow == << <<0, 0>>, <<0, 2>>, <<1, 1>>, <<1, 3>> >>

\* motifs of 1 to MaxSpots - 1 labelled spots of the window
RelMotifs ==
    UNION {UNION {{[i \in 1..n |-> <<RelWindow[pos[i]], lab[i]>>] : lab \in [1..n -> Labels]} :
                     pos \in {f \in [1..n -> 1..Len(RelWindow)] :
                                \A i, j \in 1..n : i < j => f[i] < f[j]}} :
              n \in 1..(MaxSpots - 1)}

\* a number that tells the motifs of the window apart, to take every
\* unordered pair of them once
MotifCode(m) ==
    SumSeq([i \in 1..Len(m) |->
              (2 * (4 * m[i][1][1] + m[i][1][2]) + (IF m[i][2] = "A" THEN 0 ELSE 1))
                 * 16 ^ (i - 1)])
    + Len(m) * 16 ^ MaxSpots

Relate ==
    /\ pc = "relate"
    /\ pc' = "related"
    /\ \E sig1 \in {geometric_signature(motif)}, sig2 \in {geometric_signature(image)} :
       \E aa \in {compare_structures(sig1, sig1)}, ab \in {compare_structures(sig1, sig2)},
          ba \in {compare_structures(sig2, sig1)} :
       \E c \in RelMotifs :
       \E sig3 \in {geometric_signature(c)} :
          /\ third' = c
          /\ verdicts' = [aa |-> aa, ab |-> ab, ba |-> ba,
                          bc |-> compare_structures(sig2, sig3),
                          ac |-> compare_structures(sig1, sig3)]
    /\ UNCHANGED <<adata, fdr_filtered_2nd, fc_threshold, coverage_threshold,
                   p_threshold, structures_2nd, sample_wise_structures,
                   grouped_structures, initial_structures, extracted_structures,
                   last_valid_structures, iteration, round_input, new_structures,
                   grouped, df_results, halt_reason, set_order, sigvars,
                   adjvars, df_counts, filtervars, runvars>>

RelInit ==
    /\ motif \in RelMotifs
    /\ image \in RelMotifs
    /\ MotifCode(motif) <= MotifCode(image)
    /\ pc = "relate"
    /\ third = <<>>
    /\ verdicts = "none"
    /\ adata = [smp \in Samples |-> <<>>]
    /\ fdr_filtered_2nd = {}
    /\ fc_threshold = <<4, 1>>
    /\ coverage_threshold = <<6, 10>>
    /\ p_threshold = 50
    /\ structures_2nd = [smp \in Samples |-> <<>>]
    /\ sample_wise_structures = [smp \in Samples |-> <<>>]
    /\ grouped_structures = <<>>
    /\ initial_structures = <<>>
    /\ extracted_structures = <<>>
    /\ last_valid_structures = <<>>
    /\ iteration = 0
    /\ round_input = <<>>
    /\ new_structures = <<>>
    /\ grouped = <<>>
    /\ df_results = <<>>
    /\ halt_reason = "none"
    /\ set_order = "ascending"
    /\ call = "none"
    /\ adjacency = "none"
    /\ df_counts = <<>>
    /\ adjusted_p_threshold = 50
    /\ df_unique_filtered = <<>>
    /\ row_idx = 1
    /\ result_dict = <<>>

RelNext == Relate

SpecRel == RelInit /\ [][RelNext]_vars

(***************************************************************************)
(* Definitions the properties are stated with.  They are written from the  *)
(* statements, not from the operators above.                               *)
(***************************************************************************)
\* two coordinates are neighbours in the 8-offset neighbourhood
Adjacent(p, q) ==
    <<Abs(p[1] - q[1]), Abs(p[2] - q[2])>> \in {<<1, 0>>, <<0, 2>>, <<1, 1>>}

\* the number of spots of the largest sample
LargestSample ==
    CHOOSE n \in {Cardinality(DOMAIN adata[smp]) : smp \in Samples} :
        \A smp \in Samples : Cardinality(DOMAIN adata[smp]) <= n

\* the call of iterative_structure_analysis has begun
Called == pc \in {"loop", "done", "raised"}

\* the loop has just completed a round that continues
Continued == pc = "loop" /\ iteration >= 1

KeysOf(dict) == [i \in 1..Len(dict) |-> dict[i].key]

\* the rows of the statistics table for the group whose members are the
\* current motifs
SelectedRows ==
    {r \in Range(df_results) : grouped[r.Group_ID + 1] = KeysOf(extracted_structures)}

\* the spots of its sample a motif can take as its next node
Attachable(entry) ==
    {c \in DOMAIN adata[entry.key[1]] :
        /\ \E i \in DOMAIN entry.nodes : Adjacent(entry.nodes[i][1], c)
        /\ \A i \in DOMAIN entry.nodes : entry.nodes[i][1] # c}

\* the motif an input motif becomes by taking the spot c
Grown(entry, c) == Append(entry.nodes, <<c, adata[entry.key[1]][c]>>)

\* the multiset of the node labels of a motif
LabelBag(nodes) ==
    [l \in Labels |-> Cardinality({i \in DOMAIN nodes : nodes[i][2] = l})]

\* the squared distance of two coordinates
SqDist(p, q) == (p[1] - q[1]) * (p[1] - q[1]) + (p[2] - q[2]) * (p[2] - q[2])

\* the multiset of the squared pairwise distances of a motif
DistanceBag(nodes) ==
    LET pairs == {pr \in (DOMAIN nodes) \X (DOMAIN nodes) : pr[1] < pr[2]}
        ds    == {SqDist(nodes[pr[1]][1], nodes[pr[2]][1]) : pr \in pairs}
    IN [d \in ds |-> Cardinality({pr \in pairs :
                         SqDist(nodes[pr[1]][1], nodes[pr[2]][1]) = d})]

\* there is a bijection between the nodes of two motifs that preserves the
\* labels and all pairwise distances
Congruent(m1, m2) ==
    /\ Len(m1) = Len(m2)
    /\ \E f \in [DOMAIN m1 -> DOMAIN m2] :
          /\ \A i \in DOMAIN m1, j \in DOMAIN m1 : f[i] = f[j] => i = j
          /\ \A i \in DOMAIN m1 : m1[i][2] = m2[f[i]][2]
          /\ \A i \in DOMAIN m1, j \in DOMAIN m1 :
                SqDist(m1[i][1], m1[j][1]) = SqDist(m2[f[i]][1], m2[f[j]][1])

\* every two members of a group of the grouping are congruent
GroupsAreCongruent(groups, structures_dict) ==
    \A g \in DOMAIN groups :
        \A i \in DOMAIN groups[g], j \in DOMAIN groups[g] :
            Congruent(NodesOf(structures_dict, groups[g][i]),
                      NodesOf(structures_dict, groups[g][j]))

\* the family of the membership sets of a grouping
Family(groups) == {Range(groups[g]) : g \in DOMAIN groups}

\* reorderings of a collection: it reversed, its rotations and its
\* transpositions of two neighbours
Reorderings(dict) ==
    {Reverse(dict)}
        \cup {SubSeq(dict, k + 1, Len(dict)) \o SubSeq(dict, 1, k) : k \in 1..(Len(dict) - 1)}
        \cup {[dict EXCEPT ![k] = dict[k + 1], ![k + 1] = dict[k]] : k \in 1..(Len(dict) - 1)}

\* the position of a key in a collection
PositionOf(dict, key) == CHOOSE i \in DOMAIN dict : dict[i].key = key

\* the unordered pairs of adjacent spots of a sample whose unordered label
\* pair is a row of the significant-pair table
QualifyingPairs(smp) ==
    {pair \in {{p, q} : p \in DOMAIN adata[smp], q \in DOMAIN adata[smp]} :
        \E p \in pair, q \in pair :
            /\ p # q
            /\ Adjacent(p, q)
            /\ \/ <<adata[smp][p], adata[smp][q]>> \in fdr_filtered_2nd
               \/ <<adata[smp][q], adata[smp][p]>> \in fdr_filtered_2nd}

(***************************************************************************)
(* C1.  The loop runs at most as many rounds as the largest sample has     *)
(* spots: the round counter never exceeds that number, and while the loop  *)
(* is still running it is below it, so the round to come is within it too. *)
(***************************************************************************)
C1_RoundsBoundedByLargestSample ==
    /\ iteration <= LargestSample
    /\ pc = "loop" => iteration < LargestSample

\* a run of two continuing rounds and the halting round after them
C1_Witness == pc = "done" /\ iteration = 3 /\ halt_reason = "no expansion possible"

(***************************************************************************)
(* C2.  As claimed: the returned set is the initial set or a group that,   *)
(* in the round that selected it, had Fold_Change > fc_threshold and       *)
(* Coverage >= coverage_threshold.  Stated on the halting step: the set    *)
(* returned is the one current before it, selected by the last continuing  *)
(* round, whose table is still the one in df_results.                      *)
(***************************************************************************)
C2_ReturnedSetMeetsFoldAndCoverage ==
    [][(Continued /\ pc' = "done") =>
          \A r \in SelectedRows :
              /\ FoldChangeAbove(r, fc_threshold)
              /\ RatLeq(coverage_threshold, r.Coverage)]_vars

(***************************************************************************)
(* C3.  As claimed: the loop goes on to a further round only when the      *)
(* group it selected is significant in that round: Adjusted_P below        *)
(* p_threshold, Coverage at least coverage_threshold and Fold_Change above *)
(* fc_threshold, which is the Significant flag of its row.                 *)
(***************************************************************************)
C3_ContinuesOnlyWhileSignificant ==
    Continued => \A r \in SelectedRows : r.Significant

(***************************************************************************)
(* C4.  When the loop halts by one of its three breaks, the set returned   *)
(* is the collection that was current at the start of the halting round,   *)
(* the initial collection when that was the first round, and none of its   *)
(* motifs is a motif of the halting round's expansion.                     *)
(***************************************************************************)
C4_HaltReturnsRoundInput ==
    pc = "done" =>
        /\ halt_reason \in {"no expansion possible", "no significant group",
                            "coverage insufficient"}
        /\ last_valid_structures = round_input
        /\ iteration = 1 => last_valid_structures = initial_structures
        /\ \A i \in DOMAIN last_valid_structures, j \in DOMAIN new_structures :
              last_valid_structures[i].nodes # new_structures[j].nodes

\* a halt after a continuing round, in a round whose expansion was not empty
C4_Witness ==
    /\ pc = "done"
    /\ iteration >= 2
    /\ new_structures # <<>>
    /\ last_valid_structures # initial_structures

(***************************************************************************)
(* C5.  After a round that continues, the current collection is the        *)
(* member list of a group whose row has Fold_Change > fc_threshold and a   *)
(* raw P_Value no larger than that of any other row with                   *)
(* Fold_Change > fc_threshold; every member carries the node list this     *)
(* round's expansion gave it; and the last-valid set is the same           *)
(* collection.                                                             *)
(***************************************************************************)
C5_NextIsMinPValueGroup ==
    Continued =>
        /\ last_valid_structures = extracted_structures
        /\ \E r \in Range(df_results) :
              /\ KeysOf(extracted_structures) = grouped[r.Group_ID + 1]
              /\ FoldChangeAbove(r, fc_threshold)
              /\ \A q \in Range(df_results) :
                    FoldChangeAbove(q, fc_threshold) => r.P_Value <= q.P_Value
        /\ \A i \in DOMAIN extracted_structures :
              \E j \in DOMAIN new_structures :
                  new_structures[j] = extracted_structures[i]

\* a continuing round whose selected group is not the first group formed and
\* beats another fold-filtered group on the raw p-value
C5_Witness ==
    /\ Continued
    /\ \E r \in SelectedRows :
          /\ r.Group_ID > 0
          /\ \E q \in Range(df_results) :
                FoldChangeAbove(q, fc_threshold) /\ r.P_Value < q.P_Value

(***************************************************************************)
(* C6.  expand_structure of the empty collection is the empty collection,  *)
(* and a call started on the empty collection ends in its first round by   *)
(* the break "no expansion possible", returning the empty collection.      *)
(***************************************************************************)
C6_EmptyInputHaltsAtOnce ==
    /\ expand_structure(<<>>, adata, set_order) = <<>>
    /\ (Called /\ initial_structures = <<>>) =>
          /\ pc # "raised"
          /\ pc = "loop" => iteration = 0
          /\ pc = "done" =>
                /\ iteration = 1
                /\ halt_reason = "no expansion possible"
                /\ new_structures = <<>>
                /\ last_valid_structures = initial_structures

\* the call on the empty collection has returned
C6_Witness == pc = "done" /\ initial_structures = <<>> /\ iteration = 1

(***************************************************************************)
(* C7.  The expansion of a round holds, for every input motif and every    *)
(* spot of its sample that is adjacent to one of its nodes and is not a    *)
(* node of it, exactly one motif: the input's node list followed by that   *)
(* spot with its label; it holds nothing else, so a motif with no such     *)
(* spot contributes nothing; and no two of its motifs share a key.         *)
(***************************************************************************)
C7_ExpansionIsExact ==
    (Called /\ iteration >= 1) =>
        /\ \A k \in DOMAIN round_input :
              \A c \in Attachable(round_input[k]) :
                  Cardinality({j \in DOMAIN new_structures :
                                 /\ new_structures[j].key[1] = round_input[k].key[1]
                                 /\ new_structures[j].nodes = Grown(round_input[k], c)}) = 1
        /\ \A j \in DOMAIN new_structures :
              \E k \in DOMAIN round_input :
                  /\ new_structures[j].key[1] = round_input[k].key[1]
                  /\ \E c \in Attachable(round_input[k]) :
                        new_structures[j].nodes = Grown(round_input[k], c)
        /\ \A i \in DOMAIN new_structures, j \in DOMAIN new_structures :
              new_structures[i].key = new_structures[j].key => i = j

\* a round in which one motif has no spot to take and another has two
C7_Witness ==
    /\ Called /\ iteration >= 1
    /\ \E k \in DOMAIN round_input : Attachable(round_input[k]) = {}
    /\ \E k \in DOMAIN round_input : Cardinality(Attachable(round_input[k])) >= 2

(***************************************************************************)
(* C8.  When all initial motifs have n nodes, after k rounds that          *)
(* continued every motif of the current collection and of the last-valid   *)
(* (returned) collection has n + k nodes, the first n of them being, in    *)
(* order, the nodes of an initial motif of the same sample.                *)
(***************************************************************************)
C8_MotifsGrowByOnePerRound ==
    (Called /\ initial_structures # <<>>) =>
        LET n == Len(initial_structures[1].nodes)
            k == IF pc = "loop" THEN iteration ELSE iteration - 1
            grown(e) ==
                /\ Len(e.nodes) = n + k
                /\ \E i \in DOMAIN initial_structures :
                      /\ initial_structures[i].key[1] = e.key[1]
                      /\ SubSeq(e.nodes, 1, n) = initial_structures[i].nodes
        IN (\A i \in DOMAIN initial_structures : Len(initial_structures[i].nodes) = n)
              => /\ \A i \in DOMAIN extracted_structures : grown(extracted_structures[i])
                 /\ \A i \in DOMAIN last_valid_structures : grown(last_valid_structures[i])

\* the return after two rounds that continued, from motifs of two nodes
C8_Witness ==
    /\ pc = "done"
    /\ iteration = 3
    /\ initial_structures # <<>>
    /\ Len(initial_structures[1].nodes) = 2
    /\ \E i \in DOMAIN last_valid_structures : Len(last_valid_structures[i].nodes) = 4

(***************************************************************************)
(* C9.  After the seed step, in every sample, each unordered pair of       *)
(* adjacent spots whose unordered label pair is a row of the               *)
(* significant-pair table is the pair of coordinates of exactly one        *)
(* 2-node base structure, and every base structure is made of such a pair  *)
(* with the labels of its spots.  The rows of the table have two different *)
(* labels, as compute_groupwise_adjacency_matrix returns them.             *)
(***************************************************************************)
C9_OneBaseStructurePerQualifyingPair ==
    pc \notin {"seed", "signature"} =>
        \A smp \in focus_sample_ids :
            /\ \A pair \in QualifyingPairs(smp) :
                  Cardinality({i \in DOMAIN structures_2nd[smp] :
                                 {structures_2nd[smp][i].nodes[1][1],
                                  structures_2nd[smp][i].nodes[2][1]} = pair}) = 1
            /\ \A i \in DOMAIN structures_2nd[smp] :
                  LET nodes == structures_2nd[smp][i].nodes
                  IN /\ Len(nodes) = 2
                     /\ {nodes[1][1], nodes[2][1]} \in QualifyingPairs(smp)
                     /\ \A k \in 1..2 : nodes[k][2] = adata[smp][nodes[k][1]]

\* a sample with two base structures and an adjacent pair that yields none
C9_Witness ==
    /\ pc = "start"
    /\ \E smp \in Samples :
          /\ Len(structures_2nd[smp]) >= 2
          /\ \E p \in DOMAIN adata[smp], q \in DOMAIN adata[smp] :
                Adjacent(p, q) /\ {p, q} \notin QualifyingPairs(smp)

(***************************************************************************)
(* C10.  compare_structures holds between the signature of a motif and the *)
(* signature of every image of it under translations, rotations (quarter   *)
(* turns, the rotations that take grid coordinates to grid coordinates)    *)
(* and reflections of its coordinates, the labels carried along, and under *)
(* permutations of the order of its nodes, in any combination.             *)
(***************************************************************************)
C10_SignatureInvariantUnderGridMaps ==
    pc = "signature" =>
        compare_structures(geometric_signature(motif), geometric_signature(image))

\* the image is the motif turned, shifted and listed backwards, and holds
\* both labels
C10_Witness ==
    /\ pc = "signature"
    /\ Len(motif) = 3
    /\ {motif[i][2] : i \in DOMAIN motif} = Labels
    /\ image = Reverse(Shifted(Turned(motif), <<1, 0>>))

(***************************************************************************)
(* C11.  Two motifs whose multisets of node labels differ are never        *)
(* matched: compare_structures on their signatures is False, also when     *)
(* their multisets of pairwise distances are the same, and the grouping    *)
(* of the two puts them in two groups.  Motifs have two nodes or more.     *)
(***************************************************************************)
C11_DifferentLabelBagsNeverMatch ==
    (pc \in {"pair", "grouped by geometry"} /\ LabelBag(motif) # LabelBag(image)) =>
        /\ ~compare_structures(geometric_signature(motif), geometric_signature(image))
        /\ pc = "grouped by geometry" => Len(grouped) = 2

\* two motifs of three nodes with the same distances and different label
\* multisets, grouped
C11_Witness ==
    /\ pc = "grouped by geometry"
    /\ Len(motif) = 3
    /\ DistanceBag(motif) = DistanceBag(image)
    /\ LabelBag(motif) # LabelBag(image)
    /\ Len(grouped) = 2

(***************************************************************************)
(* C12.  As claimed: any two motifs that the seed grouping or              *)
(* group_structures_by_geometry places in the same group are congruent:    *)
(* there is a bijection between their nodes that preserves the labels and  *)
(* all pairwise distances.                                                 *)
(***************************************************************************)
C12_SameGroupImpliesCongruent ==
    /\ pc = "grouped by geometry" => GroupsAreCongruent(grouped, new_structures)
    /\ pc = "grouped by seed" =>
          GroupsAreCongruent(grouped_structures, SeedDict(sample_wise_structures))

(***************************************************************************)
(* C13.  The grouping of a collection does not depend on the order of the  *)
(* collection: the seed grouping of the 3-node structures and              *)
(* group_structures_by_geometry of a round's expansion give, on the        *)
(* collection reversed, rotated or with two neighbours transposed, the     *)
(* same family of membership sets as on the collection itself.             *)
(***************************************************************************)
C13_GroupingIgnoresInputOrder ==
    /\ \A r \in Reorderings(new_structures) :
          Family(group_structures_by_geometry(r)) = Family(grouped)
    /\ pc # "seed" =>
          \A r \in Reorderings(SeedDict(sample_wise_structures)) :
              Family(GreedyGroups(r, 1, [groups |-> <<>>, refs |-> <<>>]).groups)
                  = Family(grouped_structures)

\* an expansion with two groups or more, in which the members of one group
\* are separated by a member of another
C13_Witness ==
    /\ Len(grouped) >= 2
    /\ \E g \in DOMAIN grouped : \E i \in DOMAIN grouped[g], j \in DOMAIN grouped[g] :
          \E k \in DOMAIN new_structures :
              /\ PositionOf(new_structures, grouped[g][i]) < k
              /\ k < PositionOf(new_structures, grouped[g][j])
              /\ new_structures[k].key \notin Range(grouped[g])

\* the rows of a table of pairs that are about the ordered pair (l1, l2)
RowsOf(table, l1, l2) ==
    {k \in DOMAIN table : table[k].Leiden1 = l1 /\ table[k].Leiden2 = l2}

\* sample 1 alone is group G1 and all other samples are group G2, compared in
\* this order
OneAgainstRest ==
    /\ call.groups = <<"G1", "G2">>
    /\ call.class[1] = "G1"
    /\ \A smp \in Samples \ {1} : call.class[smp] = "G2"

\* C14: when G1 is sample 1 and G2 the other samples, every sample has
\* adjacent spots, and label A is adjacent to label B in sample 1 and in no
\* sample of G2, the call reports the pair (A, B) with FDR_corrected < 0.05,
\* a positive G1 mean and a G2 mean of 0
C14_OneSidedAdjacencyIsReported ==
    (/\ pc = "adjacency done"
     /\ OneAgainstRest
     /\ \A smp \in Samples : adjacency.sample_adj_counts[smp].index # {}
     /\ adj_counts(adata[1], "A", "B") > 0
     /\ \A smp \in Samples \ {1} : adj_counts(adata[smp], "A", "B") = 0) =>
        \E k \in RowsOf(adjacency.fdr_results, "A", "B") :
            /\ RatLess(adjacency.fdr_results[k].FDR_corrected, <<50, 1>>)
            /\ adjacency.fdr_results[k].group1_mean[1] > 0
            /\ adjacency.fdr_results[k].group2_mean[1] = 0

\* the call returned a table of pairs filtered for the focus group
ReturnedFocusTable ==
    /\ pc = "adjacency done"
    /\ adjacency.outcome = "returned"
    /\ Len(call.groups) = 2

\* the rows of the table of all pairs with FDR_corrected < P_value and
\* Leiden1 # Leiden2
PassingRows ==
    {k \in DOMAIN adjacency.fdr_results :
        /\ RatLess(adjacency.fdr_results[k].FDR_corrected, <<call.P_value, 1>>)
        /\ adjacency.fdr_results[k].Leiden1 # adjacency.fdr_results[k].Leiden2}

\* the mean of the focus group's means over the passing rows
MeanOverPassing ==
    <<SumSeq([k \in 1..Len(adjacency.fdr_results) |->
                IF k \in PassingRows
                THEN FocusMean(adjacency.fdr_results[k], call.groups, call.focus_group)[1]
                ELSE 0]),
      Factorial(MaxSpots) * Cardinality(PassingRows)
        * Len(GroupMatricesFrom(adjacency.sample_adj_counts, call.class,
                                call.focus_group, 1))>>

\* the rows of the table of all pairs that meet the four conditions
EnrichedRows ==
    {k \in PassingRows :
        /\ RatLess(<<call.enrichment_fold[1]
                       * OtherMean(adjacency.fdr_results[k], call.groups, call.focus_group)[1],
                     call.enrichment_fold[2]
                       * OtherMean(adjacency.fdr_results[k], call.groups, call.focus_group)[2]>>,
                   FocusMean(adjacency.fdr_results[k], call.groups, call.focus_group))
        /\ RatLess(MeanOverPassing,
                   FocusMean(adjacency.fdr_results[k], call.groups, call.focus_group))}

\* C15: the table returned for a focus group holds exactly the ordered pairs
\* with FDR_corrected < P_value, Leiden1 # Leiden2, focus mean above
\* enrichment_fold times the other group's mean, and focus mean above the mean
\* of the focus means over the pairs meeting the first two conditions
C15_ReturnedPairsAreTheEnrichedOnes ==
    ReturnedFocusTable =>
        /\ Range(adjacency.returned) = {adjacency.fdr_results[k] : k \in EnrichedRows}
        /\ Len(adjacency.returned) = Cardinality(EnrichedRows)

C15_Witness ==
    /\ ReturnedFocusTable
    /\ Len(adjacency.returned) >= 1
    /\ Cardinality(PassingRows) > Len(adjacency.returned)
    /\ \E k \in DOMAIN adjacency.fdr_results :
          /\ adjacency.fdr_results[k].Leiden1 = adjacency.fdr_results[k].Leiden2
          /\ RatLess(adjacency.fdr_results[k].FDR_corrected, <<call.P_value, 1>>)

\* C16: a call whose focus_group is designated and is not one of the groups
\* supplied ends with a ValueError, whatever the number of groups (the
\* samples all have adjacent spots)
C16_ForeignFocusGroupIsRejected ==
    (/\ pc = "adjacency done"
     /\ \A smp \in Samples : adjacency.sample_adj_counts[smp].index # {}
     /\ call.focus_group # "None"
     /\ call.focus_group \notin Range(call.groups)) =>
        adjacency.outcome = "ValueError"

\* C17: a call with two groups and focus_group = None raises no error and
\* returns the pairs with FDR_corrected < P_value and Leiden1 # Leiden2, with
\* no fold filter (both groups have samples, which all have adjacent spots)
C17_FocusGroupIsOptional ==
    (/\ pc = "adjacency done"
     /\ \A smp \in Samples : adjacency.sample_adj_counts[smp].index # {}
     /\ Len(call.groups) = 2
     /\ Range(call.groups) \subseteq Range(call.class)
     /\ call.focus_group = "None") =>
        /\ adjacency.outcome = "returned"
        /\ adjacency.returned = adjacency.fdr_filtered

\* the ordered (spot, neighbour) pairs of a sample with labels a and b: the
\* neighbour is a spot of the sample at one of the 8 offsets
NeighbourPairs(spot_dict, a, b) ==
    {pq \in (DOMAIN spot_dict) \X (DOMAIN spot_dict) :
        /\ spot_dict[pq[1]] = a
        /\ spot_dict[pq[2]] = b
        /\ <<pq[2][1] - pq[1][1], pq[2][2] - pq[1][2]>> \in Range(neighbors_offset)}

\* the spots of a sample with label a
SpotsLabelled(spot_dict, a) == {p \in DOMAIN spot_dict : spot_dict[p] = a}

\* C18: in every sample, for every label a with a spot in it, the entry (a, b)
\* of the sample's adjacency matrix is the number of ordered (spot, neighbour)
\* pairs with labels a and b divided by the number of spots labelled a, which
\* is not zero; a label without a spot has no row
C18_EntryIsNeighbourPairsPerSpot ==
    pc = "adjacency done" =>
        \A smp \in Samples, a \in Labels :
            IF SpotsLabelled(adata[smp], a) = {}
            THEN a \notin adjacency.sample_adj_counts[smp].index
            ELSE \A b \in Labels :
                   /\ Entry(adjacency.sample_adj_counts[smp], a, b)[2] # 0
                   /\ Entry(adjacency.sample_adj_counts[smp], a, b)[1]
                        * Cardinality(SpotsLabelled(adata[smp], a))
                      = Cardinality(NeighbourPairs(adata[smp], a, b))
                        * Entry(adjacency.sample_adj_counts[smp], a, b)[2]

C18_Witness ==
    /\ pc = "adjacency done"
    /\ \E smp \in Samples, a \in Labels, b \in Labels :
          /\ Cardinality(SpotsLabelled(adata[smp], a)) >= 2
          /\ Cardinality(SpotsLabelled(adata[smp], b)) >= 1
          /\ a # b
          /\ Cardinality(NeighbourPairs(adata[smp], a, b)) = 1
          /\ Entry(adjacency.sample_adj_counts[smp], a, b)
               = <<1, Cardinality(SpotsLabelled(adata[smp], a))>>
          /\ \E p \in SpotsLabelled(adata[smp], a) :
                \E o \in DOMAIN neighbors_offset : NeighborsOf(p)[o] \notin DOMAIN adata[smp]

\* the three conditions on a row of a statistics table, with the thresholds
\* of the run; a NaN is below nothing
MeetsThresholds(row) ==
    /\ row.Adjusted_P[1] # NaN
    /\ row.Adjusted_P[1] < p_threshold * row.Adjusted_P[2]
    /\ FoldChangeAbove(row, fc_threshold)
    /\ row.Coverage[1] * coverage_threshold[2] >= coverage_threshold[1] * row.Coverage[2]

\* C19: in the table of the seed scorer and in the table of
\* analyze_structure_groups, a row is flagged Significant exactly when
\* Adjusted_P < p_threshold, Fold_Change > fc_threshold and
\* Coverage >= coverage_threshold
C19_SignificantIsTheConjunction ==
    /\ \A i \in DOMAIN df_counts : df_counts[i].Significant <=> MeetsThresholds(df_counts[i])
    /\ \A i \in DOMAIN df_results : df_results[i].Significant <=> MeetsThresholds(df_results[i])

C19_Witness ==
    /\ \E i \in DOMAIN df_counts : df_counts[i].Significant
    /\ \E i \in DOMAIN df_results : df_results[i].Significant
    /\ \E i \in DOMAIN df_results :
          /\ RatLeq(coverage_threshold, df_results[i].Coverage)
          /\ FoldChangeAbove(df_results[i], fc_threshold)
          /\ ~df_results[i].Significant

\* the label multiset of the first member of the seed group of a row
RowLabels(row) ==
    LabelBag(NodesOf(SeedDict(sample_wise_structures),
                     grouped_structures[row.Group_ID + 1][1]))

\* the rows of the seed table with the label multiset of a row
Sharing(row) == {i \in DOMAIN df_counts : RowLabels(df_counts[i]) = RowLabels(row)}

\* no row with the same label multiset has a lower raw p-value
LowestOfItsLabels(row) ==
    \A i \in Sharing(row) : ~PLess(df_counts[i].P_Value, row.P_Value)

\* the adjusted-p cutoff of the call
WithinCutoff(row) ==
    /\ row.Adjusted_P[1] # NaN
    /\ row.Adjusted_P[1] <= adjusted_p_threshold * row.Adjusted_P[2]

\* C20: filter_unique_significant_structures returns at most one row per
\* label multiset of the groups' first members; the row returned is a row of
\* the table with the lowest raw P_Value among the rows sharing the multiset;
\* and the cutoff on Adjusted_P is applied to the rows so chosen: a multiset
\* has a row in the result exactly when a lowest row of it is within the cutoff
C20_OneLowestRowPerLabelMultiset ==
    pc = "filtered" =>
        /\ \A i, j \in DOMAIN df_unique_filtered :
              RowLabels(df_unique_filtered[i]) = RowLabels(df_unique_filtered[j]) => i = j
        /\ \A i \in DOMAIN df_unique_filtered :
              /\ df_unique_filtered[i] \in Range(df_counts)
              /\ LowestOfItsLabels(df_unique_filtered[i])
              /\ WithinCutoff(df_unique_filtered[i])
        /\ \A i \in DOMAIN df_counts :
              (LowestOfItsLabels(df_counts[i]) /\ WithinCutoff(df_counts[i])) =>
                  \E j \in DOMAIN df_unique_filtered :
                      RowLabels(df_unique_filtered[j]) = RowLabels(df_counts[i])

C20_Witness ==
    /\ pc = "filtered"
    /\ \E i \in DOMAIN df_unique_filtered :
          \E k \in Sharing(df_unique_filtered[i]) :
              PLess(df_unique_filtered[i].P_Value, df_counts[k].P_Value)
    /\ \E i \in DOMAIN df_counts :
          /\ LowestOfItsLabels(df_counts[i])
          /\ ~WithinCutoff(df_counts[i])

\* the members of the group of the i-th row of the table that have a motif
\* in sample_wise_structures; none when the group id is no key
FoundMembers(i) ==
    IF df_counts[i].Group_ID + 1 \notin DOMAIN grouped_structures THEN {}
    ELSE {key \in Range(grouped_structures[df_counts[i].Group_ID + 1]) :
            \E e \in Range(sample_wise_structures[key[1]]) : e.key = key[2]}

\* the motif sample_wise_structures holds under a key
MotifAt(key) ==
    (CHOOSE e \in Range(sample_wise_structures[key[1]]) : e.key = key[2]).nodes

\* a collection of motifs is what the i-th row refers to and can be found
IsMotifsOfRow(structures, i) ==
    /\ {structures[k].key : k \in DOMAIN structures} = FoundMembers(i)
    /\ \A k \in DOMAIN structures : structures[k].nodes = MotifAt(structures[k].key)

\* the rows of the table whose group has a first member with a motif
RowsWithSignature ==
    SelectSeq(df_counts, LAMBDA row :
        /\ row.Group_ID + 1 \in DOMAIN grouped_structures
        /\ grouped_structures[row.Group_ID + 1] # <<>>
        /\ \E e \in Range(sample_wise_structures[grouped_structures[row.Group_ID + 1][1][1]]) :
              e.key = grouped_structures[row.Group_ID + 1][1][2])

\* C21: in run_iterative_analysis_over_df a row whose group id is no key of
\* grouped_structures, or none of whose motifs is found in
\* sample_wise_structures, is passed over and leaves the result as it was;
\* iterative_structure_analysis is entered only for the other rows, with the
\* motifs of the row that are found, and what it returns is stored under the
\* row while the entries of the other rows stay as they are; and
\* filter_unique_significant_structures returns what it returns for the table
\* without the rows it cannot resolve
C21_BrokenReferencesSkipOneRow ==
    [][/\ \A k \in DOMAIN result_dict :
             pc # "start" => (k \in DOMAIN result_dict' /\ result_dict'[k] = result_dict[k])
       /\ (pc = "rows" /\ pc' = "rows") =>
             /\ FoundMembers(row_idx) = {}
             /\ result_dict' = result_dict
             /\ row_idx' = row_idx + 1
       /\ (pc = "rows" /\ pc' = "loop") =>
             /\ FoundMembers(row_idx) # {}
             /\ IsMotifsOfRow(initial_structures', row_idx)
       /\ (pc = "done" /\ pc' = "rows") =>
             /\ IsMotifsOfRow(initial_structures, row_idx)
             /\ DOMAIN result_dict' = (DOMAIN result_dict) \cup {row_idx}
             /\ result_dict'[row_idx] = last_valid_structures
             /\ row_idx' = row_idx + 1
       /\ pc' = "returned" =>
             /\ row_idx' = Len(df_counts) + 1
             /\ \A i \in DOMAIN result_dict' : FoundMembers(i) # {}
       /\ pc' = "filtered" =>
             df_unique_filtered' =
                filter_unique_significant_structures(RowsWithSignature, grouped_structures,
                                                     sample_wise_structures,
                                                     adjusted_p_threshold')
      ]_vars

C21_Witness ==
    /\ pc = "returned"
    /\ \E i \in DOMAIN df_counts : df_counts[i].Group_ID + 1 \notin DOMAIN grouped_structures
    /\ \E i \in DOMAIN df_counts :
          /\ df_counts[i].Group_ID + 1 \in DOMAIN grouped_structures
          /\ FoundMembers(i) = {}
    /\ \E i \in DOMAIN result_dict :
          /\ result_dict[i] # <<>>
          /\ \E j \in DOMAIN df_counts : j < i /\ FoundMembers(j) = {}

\* the spots of a sample a base structure can be extended by: adjacent to
\* one of its two endpoints and none of them
AttachmentSpots(smp, base) ==
    {n \in DOMAIN adata[smp] :
        /\ n \notin {base[1][1], base[2][1]}
        /\ Adjacent(base[1][1], n) \/ Adjacent(base[2][1], n)}

\* C22: for every base structure of a sample and every spot of the sample
\* adjacent to one of its endpoints and not an endpoint, the seed step builds
\* exactly one 3-node motif, the two base nodes followed by that spot; the
\* motifs of different attachment spots are different motifs under different
\* ids, and the seed step builds no other motif
C22_OneMotifPerAttachment ==
    pc # "seed" =>
        \A smp \in Samples :
            /\ \A b \in DOMAIN structures_2nd[smp] :
               \A n \in AttachmentSpots(smp, structures_2nd[smp][b].nodes) :
                  Cardinality({i \in DOMAIN sample_wise_structures[smp] :
                      sample_wise_structures[smp][i].nodes
                         = Append(structures_2nd[smp][b].nodes, <<n, adata[smp][n]>>)}) = 1
            /\ \A i, j \in DOMAIN sample_wise_structures[smp] :
                  i # j => /\ sample_wise_structures[smp][i].key # sample_wise_structures[smp][j].key
                           /\ sample_wise_structures[smp][i].nodes # sample_wise_structures[smp][j].nodes
            /\ \A i \in DOMAIN sample_wise_structures[smp] :
                  \E b \in DOMAIN structures_2nd[smp] :
                  \E n \in AttachmentSpots(smp, structures_2nd[smp][b].nodes) :
                      sample_wise_structures[smp][i].nodes
                         = Append(structures_2nd[smp][b].nodes, <<n, adata[smp][n]>>)

\* a base structure with two attachment spots, one of them adjacent to both
\* of its endpoints
C22_Witness ==
    /\ pc = "start"
    /\ \E smp \in Samples : \E b \in DOMAIN structures_2nd[smp] :
          /\ Cardinality(AttachmentSpots(smp, structures_2nd[smp][b].nodes)) >= 2
          /\ \E n \in AttachmentSpots(smp, structures_2nd[smp][b].nodes) :
                /\ Adjacent(structures_2nd[smp][b].nodes[1][1], n)
                /\ Adjacent(structures_2nd[smp][b].nodes[2][1], n)
          /\ Len(sample_wise_structures[smp]) >= 2

\* compare_structures on the motifs a collection holds under two keys
Matches(structures_dict, k1, k2) ==
    compare_structures(geometric_signature(NodesOf(structures_dict, k1)),
                       geometric_signature(NodesOf(structures_dict, k2)))

\* the places <<group, position>> at which a grouping holds a key
PlacesOf(groups, key) ==
    {gi \in UNION {{<<g, i>> : i \in DOMAIN groups[g]} : g \in DOMAIN groups} :
        groups[gi[1]][gi[2]] = key}

\* a grouping of a collection is a partition of it into non-empty groups,
\* every member matches the first member of its group and of no group formed
\* earlier
IsGreedyPartition(groups, structures_dict) ==
    /\ \A e \in Range(structures_dict) : Cardinality(PlacesOf(groups, e.key)) = 1
    /\ \A g \in DOMAIN groups :
          /\ groups[g] # <<>>
          /\ \A i \in DOMAIN groups[g] :
                /\ groups[g][i] \in {e.key : e \in Range(structures_dict)}
                /\ Matches(structures_dict, groups[g][i], groups[g][1])
                /\ \A h \in 1..(g - 1) : ~Matches(structures_dict, groups[g][i], groups[h][1])
    /\ \A g, h \in DOMAIN groups :
          g # h => ~Matches(structures_dict, groups[g][1], groups[h][1])

\* C23: the seed grouping and the grouping of every round are partitions of
\* the motifs grouped: every motif is in exactly one group, no group is empty,
\* every member matches the first member of its group, a motif is in the
\* earliest-formed group whose first member it matches, and the first members
\* of two groups never match
C23_GroupingIsGreedyPartition ==
    /\ pc # "seed" =>
          IsGreedyPartition(grouped_structures, SeedDict(sample_wise_structures))
    /\ IsGreedyPartition(grouped, new_structures)

\* a round whose grouping has a group of two and a later group, the second
\* member of the first group coming after the first member of the later one
C23_Witness ==
    /\ pc \in {"loop", "done"}
    /\ Len(grouped_structures) >= 2
    /\ \E g \in DOMAIN grouped, h \in DOMAIN grouped :
          /\ g < h
          /\ Len(grouped[g]) >= 2
          /\ PositionOf(group_by_label_sets(new_structures), grouped[h][1])
               < PositionOf(group_by_label_sets(new_structures), grouped[g][2])

\* C24: compare_structures is an equivalence relation on the signatures of
\* motifs of any sizes: a signature matches itself, a match holds in both
\* directions or in neither, and two matches with a common signature imply
\* the match of the other two
C24_CompareIsAnEquivalence ==
    pc = "related" =>
        /\ verdicts.aa
        /\ verdicts.ab <=> verdicts.ba
        /\ (verdicts.ab /\ verdicts.bc) => verdicts.ac
        /\ (verdicts.ba /\ verdicts.ac) => verdicts.bc

\* three different motifs that match pairwise, and elsewhere motifs of
\* different sizes
C24_Witness ==
    /\ pc = "related"
    /\ verdicts.ab /\ verdicts.bc /\ verdicts.ac
    /\ motif # image /\ image # third /\ motif # third
    /\ Len(motif) = 3
    /\ LabelBag(motif) = LabelBag(third)
    /\ {motif[i][1] : i \in DOMAIN motif} # {third[i][1] : i \in DOMAIN third}

\* no sample of the g-th group of the call has a spot labelled l1 with a
\* neighbour labelled l2
AllZeroIn(g, l1, l2) ==
    \A smp \in Samples :
        call.class[smp] = call.groups[g] => NeighbourPairs(adata[smp], l1, l2) = {}

\* C25: an ordered pair of labels whose values are all zero in one of the
\* two groups gets the raw p-value 1 and is never retained: its corrected
\* p-value is 1 and it is in neither filtered table
C25_AllZeroPairsGetPOne ==
    (pc = "adjacency done" /\ adjacency.fdr_results # <<>>) =>
        \A k \in DOMAIN adjacency.fdr_results :
            (\E g \in 1..2 : AllZeroIn(g, adjacency.fdr_results[k].Leiden1,
                                       adjacency.fdr_results[k].Leiden2)) =>
                /\ adjacency.fdr_results[k].P_value = 1000
                /\ adjacency.fdr_results[k].FDR_corrected = <<1000, 1>>
                /\ adjacency.fdr_results[k] \notin Range(adjacency.fdr_filtered)
                /\ adjacency.outcome = "returned" =>
                      adjacency.fdr_results[k] \notin Range(adjacency.returned)

\* a pair of different labels with neighbours in the first group only, next
\* to a pair for which the test was run and returned a low p-value
C25_Witness ==
    /\ pc = "adjacency done"
    /\ adjacency.fdr_results # <<>>
    /\ \E j \in DOMAIN adjacency.fdr_results : adjacency.fdr_results[j].P_value = 10
    /\ \E k \in DOMAIN adjacency.fdr_results :
          /\ adjacency.fdr_results[k].Leiden1 # adjacency.fdr_results[k].Leiden2
          /\ adjacency.fdr_results[k].group1_mean[1] > 0
          /\ AllZeroIn(2, adjacency.fdr_results[k].Leiden1, adjacency.fdr_results[k].Leiden2)
          /\ adjacency.fdr_results[k].P_value = 1000

\* the row of a statistics table that belongs to the g-th group
RowOfGroup(df, g) == df[CHOOSE k \in DOMAIN df : df[k].Group_ID = g - 1]

\* the Count_Mean values of the groups other than the g-th, summed; all of
\* them are counts over the same number of samples
SumOfOtherCountMeans(df, g) ==
    SumSeq([h \in 1..Len(df) |-> IF h = g THEN 0 ELSE RowOfGroup(df, h).Count_Mean[1]])

\* in a statistics table the denominator of Fold_Change is the mean of the
\* other rows' Count_Mean, which is positive, or the epsilon when the table
\* has one row; a row passes Fold_Change > fc exactly when its Count_Mean
\* exceeds fc times that mean, and the single row of a table always passes
FoldChangeIsRight(df) ==
    \A k \in DOMAIN df :
        LET g == df[k].Group_ID + 1
            m == Len(df)
            n == df[k].Count_Mean[2]
        IN IF m = 1
           THEN /\ df[k].Count_Mean_Other = <<0, 0>>
                /\ \A fc \in FcThresholds : FoldChangeAbove(df[k], fc)
           ELSE /\ df[k].Count_Mean_Other # <<0, 0>>
                /\ SumOfOtherCountMeans(df, g) > 0
                /\ df[k].Count_Mean_Other[1] * n * (m - 1)
                      = SumOfOtherCountMeans(df, g) * df[k].Count_Mean_Other[2]
                /\ \A fc \in FcThresholds :
                      FoldChangeAbove(df[k], fc) <=>
                         df[k].Count_Mean[1] * (m - 1) * fc[2]
                            > fc[1] * SumOfOtherCountMeans(df, g)

\* C26: Fold_Change is Count_Mean over the mean of the other groups'
\* Count_Mean, over the epsilon when there is no other group; a round whose
\* expansion forms a single group is never halted by the Fold_Change filter
C26_FoldChangeAgainstTheOthers ==
    /\ FoldChangeIsRight(df_counts)
    /\ FoldChangeIsRight(df_results)
    /\ Len(grouped) = 1 => /\ Len(df_results) = 1
                           /\ FoldFiltered(df_results, fc_threshold) = df_results
                           /\ halt_reason # "no significant group"

\* a seed table in which one group passes the filter and another does not,
\* followed by a round whose expansion formed a single group
C26_Witness ==
    /\ \E i, j \in DOMAIN df_counts :
          /\ FoldChangeAbove(df_counts[i], fc_threshold)
          /\ ~FoldChangeAbove(df_counts[j], fc_threshold)
    /\ iteration >= 1
    /\ Len(grouped) = 1
    /\ Len(df_results) = 1

\* a motif of a sample: its coordinates are pairwise different, every node is
\* a spot of the sample under that spot's label, and every node after the
\* first is next to a node before it
WellFormedMotif(smp, nodes) ==
    /\ \A i, j \in DOMAIN nodes : i # j => nodes[i][1] # nodes[j][1]
    /\ \A i \in DOMAIN nodes : /\ nodes[i][1] \in DOMAIN adata[smp]
                               /\ nodes[i][2] = adata[smp][nodes[i][1]]
    /\ \A i \in 2..Len(nodes) : \E j \in 1..(i - 1) : Adjacent(nodes[j][1], nodes[i][1])

\* every motif of a collection keyed by <<sample, id>> is well formed
AllWellFormed(structures_dict) ==
    \A i \in DOMAIN structures_dict :
        WellFormedMotif(structures_dict[i].key[1], structures_dict[i].nodes)

\* C27: every motif the seed step builds, and every motif of any round of
\* expansion and selection after it, has pairwise distinct coordinates, has
\* only spots of its own sample with their labels as nodes, and has every
\* node after the first adjacent to an earlier node
C27_MotifsAreConnectedSpotLists ==
    /\ \A smp \in Samples :
          /\ \A b \in DOMAIN structures_2nd[smp] :
                WellFormedMotif(smp, structures_2nd[smp][b].nodes)
          /\ \A i \in DOMAIN sample_wise_structures[smp] :
                WellFormedMotif(smp, sample_wise_structures[smp][i].nodes)
    /\ AllWellFormed(initial_structures)
    /\ AllWellFormed(round_input)
    /\ AllWellFormed(new_structures)
    /\ AllWellFormed(extracted_structures)
    /\ AllWellFormed(last_valid_structures)

\* after a round that went on, a selected motif of four nodes, and an
\* expanded motif whose last node is not next to its first
C27_Witness ==
    /\ iteration >= 1
    /\ \E i \in DOMAIN last_valid_structures : Len(last_valid_structures[i].nodes) >= 4
    /\ \E i \in DOMAIN new_structures :
          /\ Len(new_structures[i].nodes) >= 4
          /\ ~Adjacent(new_structures[i].nodes[1][1],
                       new_structures[i].nodes[Len(new_structures[i].nodes)][1])

\* the focus mean of a row exceeds enrichment_fold times the other mean
FoldEnriched(row) ==
    RatLess(<<call.enrichment_fold[1] * OtherMean(row, call.groups, call.focus_group)[1],
              call.enrichment_fold[2] * OtherMean(row, call.groups, call.focus_group)[2]>>,
            FocusMean(row, call.groups, call.focus_group))

\* C28: a returned pair has a focus mean strictly above the mean of the focus
\* means of the passing pairs (FDR_corrected < P_value, Leiden1 # Leiden2);
\* with exactly one passing pair, or with passing pairs of equal focus means,
\* the returned table is empty; a non-empty returned table leaves out a
\* passing pair
C28_WithinGroupFilterIsStrict ==
    ReturnedFocusTable =>
        /\ \A i \in DOMAIN adjacency.returned :
              /\ \E k \in PassingRows : adjacency.fdr_results[k] = adjacency.returned[i]
              /\ RatLess(MeanOverPassing,
                         FocusMean(adjacency.returned[i], call.groups, call.focus_group))
        /\ Cardinality(PassingRows) = 1 => adjacency.returned = <<>>
        /\ (\A j, k \in PassingRows :
               ~RatLess(FocusMean(adjacency.fdr_results[j], call.groups, call.focus_group),
                        FocusMean(adjacency.fdr_results[k], call.groups, call.focus_group)))
             => adjacency.returned = <<>>
        /\ adjacency.returned # <<>> =>
              \E k \in PassingRows : adjacency.fdr_results[k] \notin Range(adjacency.returned)

\* a single passing pair that is fold-enriched for the focus group and is
\* not returned all the same
C28_Witness ==
    /\ ReturnedFocusTable
    /\ Cardinality(PassingRows) = 1
    /\ \A k \in PassingRows : FoldEnriched(adjacency.fdr_results[k])
    /\ adjacency.returned = <<>>

\* the members of a group that are motifs of a sample
MembersIn(group, smp) == {i \in DOMAIN group : group[i][1] = smp}

\* the statistics table of a grouping of a collection of motifs: per sample
\* the groups' counts add up to the motifs of the sample, and every row has
\* the number of samples with a member as Count_Sample, at least 1, and that
\* number over the number of samples as Coverage
CountsAreRight(df, groups, structures_dict) ==
    /\ Len(df) = Len(groups)
    /\ \A smp \in Samples :
          SumSeq([g \in 1..Len(groups) |-> Cardinality(MembersIn(groups[g], smp))])
             = Cardinality({i \in DOMAIN structures_dict :
                               structures_dict[i].key[1] = smp})
    /\ \A k \in DOMAIN df :
          LET group == groups[df[k].Group_ID + 1]
          IN /\ df[k].Count_Sample
                   = Cardinality({smp \in Samples : MembersIn(group, smp) # {}})
             /\ df[k].Count_Sample >= 1
             /\ df[k].Count_Mean = <<Len(group), NSamples>>
             /\ df[k].Coverage = <<df[k].Count_Sample, NSamples>>
             /\ RatLess(<<0, 1>>, df[k].Coverage)
             /\ RatLeq(df[k].Coverage, <<1, 1>>)

\* C29: in the seed table and in the table of every round, for every sample
\* the occurrence counts of all groups sum to the number of motifs of the
\* sample in the grouped collection, every group has Count_Sample >= 1, and
\* Coverage is Count_Sample over the number of focus-group samples, above 0
\* and at most 1
C29_CountsAndCoverage ==
    /\ pc # "seed" =>
          CountsAreRight(df_counts, grouped_structures, SeedDict(sample_wise_structures))
    /\ CountsAreRight(df_results, grouped, new_structures)

\* a seed table with a group found in one sample only and a group found in
\* both samples with several motifs, and a table of a round
C29_Witness ==
    /\ \E i, j \in DOMAIN df_counts :
          /\ df_counts[i].Count_Sample = 1
          /\ df_counts[j].Count_Sample = NSamples
          /\ df_counts[j].Count_Mean[1] > NSamples
    /\ iteration >= 1
    /\ \E k \in DOMAIN df_results : df_results[k].Count_Sample < NSamples

====
